---- MODULE Spec2Model ----
(***************************************************************************)
(* A model of the toy-language pipeline: the recursive-descent parser     *)
(* (src/src/parser.rs) and the tree-walking interpreter                    *)
(* (src/src/interpreter.rs) over the AST of src/src/ast.rs.                *)
(*                                                                         *)
(* eval_stmt / eval_expr are recursive functions of the source; they are   *)
(* recursive operators here, threading the receiver (`self`) as a record.  *)
(* One iteration of the `for stmt in program` loop of interpret is one     *)
(* action.  Every evaluation appends to an observation log, so that the    *)
(* order in which the code does things is visible in the state.            *)
(***************************************************************************)
EXTENDS Integers, Sequences, FiniteSets, TLC

VARIABLES
    tokens,     \* Parser.tokens
    pos,        \* Parser.pos (0-based, as in the source)
    stmts,      \* the local `stmts` of parse_program
    presult,    \* what parse_program has returned, if it has
    plog,       \* observation log of the parser: one entry per expect/primary test
    program,    \* the &[Stmt] handed to Interpreter::interpret
    ip,         \* how many statements of `program` interpret has consumed
    env,        \* Interpreter.env
    functions,  \* Interpreter.functions
    result,     \* what interpret has returned, if it has
    log,        \* observation log of the interpreter
    input,      \* Lexer.input, a Vec<char>
    lpos,       \* Lexer.pos
    ltokens,    \* the local `tokens` of tokenize
    lresult,    \* what tokenize has returned, if it has
    runs,       \* observation log of the lexer: one entry per number or word read
    overflow_checks,    \* the build: TRUE when arithmetic overflow panics (rustc -C overflow-checks)
    tip,        \* how many statements of `program` check_program has consumed
    tenv,       \* TypeChecker.env
    tfunctions, \* TypeChecker.functions
    tresult,    \* what check_program has returned, if it has
    tlog        \* observation log of the type checker

lexVars == <<input, lpos, ltokens, lresult, runs, overflow_checks>>
tcVars == <<tip, tenv, tfunctions, tresult, tlog>>
vars == <<tokens, pos, stmts, presult, plog, program, ip, env, functions, result, log,
          lexVars, tcVars>>

(***************************************************************************)
(* Bounds of the model.                                                    *)
(***************************************************************************)
MaxProgLen == 2     \* longest statement sequence drawn from the pool
MaxFuel == 8        \* loop iterations plus calls one top-level statement may use

(***************************************************************************)
(* src/src/ast.rs                                                          *)
(***************************************************************************)
Number(n) == [kind |-> "Number", n |-> n]
Bool(b) == [kind |-> "Bool", b |-> b]
Variable(name) == [kind |-> "Variable", name |-> name]
Binary(lhs, op, rhs) == [kind |-> "Binary", lhs |-> lhs, op |-> op, rhs |-> rhs]
Call(name, args) == [kind |-> "Call", name |-> name, args |-> args]

Let(name, expr) == [kind |-> "Let", name |-> name, expr |-> expr]
Assign(name, expr) == [kind |-> "Assign", name |-> name, expr |-> expr]
ExprStmt(expr) == [kind |-> "Expr", expr |-> expr]
If(cond, then_block, else_block) ==
    [kind |-> "If", cond |-> cond, then_block |-> then_block, else_block |-> else_block]
While(cond, body) == [kind |-> "While", cond |-> cond, body |-> body]
DoWhile(body, cond) == [kind |-> "DoWhile", body |-> body, cond |-> cond]
For(var, start, cond, step, body) ==
    [kind |-> "For", var |-> var, start |-> start, cond |-> cond, step |-> step, body |-> body]
FnDecl(name, params, body) == [kind |-> "FnDecl", name |-> name, params |-> params, body |-> body]
Return(expr) == [kind |-> "Return", expr |-> expr]

BinOp == {"Add", "Sub", "Mul", "Div", "Gt", "Lt", "Eq", "Neq"}

(***************************************************************************)
(* HashMap<String, _>: a function whose domain is the set of keys.         *)
(***************************************************************************)
EmptyMap == [k \in {} |-> 0]
MapInsert(m, k, v) == [n \in (DOMAIN m) \cup {k} |-> IF n = k THEN v ELSE m[n]]

(***************************************************************************)
(* src/src/error.rs: CompilerError::RuntimeError(String).  A message is    *)
(* the sequence of the pieces format! joins: the literal text and, where   *)
(* the format string has a {} for it, the name.                            *)
(***************************************************************************)
UndefinedVariableMsg(name) == <<"Undefined variable: ", name>>
UndefinedFunctionMsg(name) == <<"Undefined function: ", name>>
ArgCountMsg(name) == <<"Incorrect argument count">>

(***************************************************************************)
(* Observation log.  d is the call depth of the interpreter instance that  *)
(* acts (0 for the one interpret was called on), s the AST node concerned. *)
(***************************************************************************)
NoNode == [kind |-> "None"]
Ev(ev, d, s, v) ==
    [ev |-> ev, d |-> d, s |-> s, v |-> v, name |-> "", msg |-> <<>>,
     env |-> EmptyMap, fns |-> EmptyMap]
EvErr(d, s, name, msg) == [Ev("err", d, s, 0) EXCEPT !.name = name, !.msg = msg]
EvFrame(ev, d, s, v, e, f) == [Ev(ev, d, s, v) EXCEPT !.env = e, !.fns = f]
EvName(ev, d, s, v, name) == [Ev(ev, d, s, v) EXCEPT !.name = name]
Emit(st, e) == [st EXCEPT !.log = Append(@, e)]

(***************************************************************************)
(* Results.  eval_expr: Ok(v) | Err(msg); eval_stmt: Ok(None) | Ok(Some v) *)
(* | Err(msg).  "Panic" is a Rust panic unwinding through every caller;    *)
(* "Diverge" is an evaluation that has not returned within MaxFuel.        *)
(***************************************************************************)
OkV(st, v) == [st |-> st, kind |-> "Ok", v |-> v, msg |-> <<>>]
OkNone(st) == [st |-> st, kind |-> "None", v |-> 0, msg |-> <<>>]
OkSome(st, v) == [st |-> st, kind |-> "Some", v |-> v, msg |-> <<>>]
ErrR(st, msg) == [st |-> st, kind |-> "Err", v |-> 0, msg |-> msg]
Abort(st, kind) == [st |-> st, kind |-> kind, v |-> 0, msg |-> <<>>]
Unwinds(r) == r.kind \in {"Panic", "Diverge"}

(***************************************************************************)
(* Interpreter (src/src/interpreter.rs).  `st` is the receiver:            *)
(* [env, functions] plus the log and the remaining fuel.                   *)
(***************************************************************************)
Abs(x) == IF x < 0 THEN -x ELSE x
\* i64 `/` rounds toward zero
TruncDiv(l, r) == IF (l < 0) # (r < 0) THEN -(Abs(l) \div Abs(r)) ELSE Abs(l) \div Abs(r)
AsInt(b) == IF b THEN 1 ELSE 0

\* the `match op` of eval_expr; `l / r` with r = 0 panics ("attempt to divide by zero")
BinaryApply(st, e, l, r, d) ==
    CASE e.op = "Add" -> OkV(st, l + r)
      [] e.op = "Sub" -> OkV(st, l - r)
      [] e.op = "Mul" -> OkV(st, l * r)
      [] e.op = "Div" -> IF r = 0 THEN Abort(Emit(st, Ev("divzero", d, e, l)), "Panic")
                         ELSE OkV(st, TruncDiv(l, r))
      [] e.op = "Eq" -> OkV(st, AsInt(l = r))
      [] e.op = "Neq" -> OkV(st, AsInt(l # r))
      [] e.op = "Gt" -> OkV(st, AsInt(l > r))
      [] e.op = "Lt" -> OkV(st, AsInt(l < r))

\* self.env.insert(name, value) of Let and of a successful Assign
EnvInsert(st, name, value) == [st EXCEPT !.env = MapInsert(@, name, value)]

\* ForBind with an implicit increment on top of the evaluated expression
ForBind_Increment(st, var, i) == [st EXCEPT !.env = MapInsert(@, var, i + 1)]

\* self.env.insert(var.clone(), i) of For, after start and after every step
ForBind(st, var, i) == [st EXCEPT !.env = MapInsert(@, var, i)]

\* self.functions.insert(name, (params, body))
FnInsert(st, s) ==
    [st EXCEPT !.functions = MapInsert(@, s.name, [params |-> s.params, body |-> s.body])]

\* the binding of For as the log sees it: the value and the environment after it
ForBound(st, s, ev, i, d) ==
    Emit(ForBind(st, s.var, i), EvFrame(ev, d, s, i, ForBind(st, s.var, i).env, EmptyMap))

\* DoWhileBreaks with the test inverted
DoWhileBreaks_Inverted(v) == v # 0

\* `if self.eval_expr(cond)? == 0 { break; }` of DoWhile
DoWhileBreaks(v) == v = 0

\* CallResume over a shared environment: the callee's bindings survive the call
CallResume_SharedEnv(self, callee) ==
    [env |-> callee.env, functions |-> self.functions, log |-> callee.log, fuel |-> callee.fuel]

\* the interpreter a Call leaves behind: `self` keeps its own env and
\* functions; new_interpreter is dropped
CallResume(self, callee) ==
    [env |-> self.env, functions |-> self.functions, log |-> callee.log, fuel |-> callee.fuel]

\* NewInterpreter with a function table of its own (HashMap::new())
NewInterpreter_EmptyTable(self, new_env) ==
    [env |-> new_env, functions |-> EmptyMap, log |-> self.log, fuel |-> self.fuel - 1]

\* new_interpreter = Interpreter { env: new_env, functions: self.functions.clone() }
NewInterpreter(self, new_env) ==
    [env |-> new_env, functions |-> self.functions, log |-> self.log, fuel |-> self.fuel - 1]

\* `if let Ok(Some(result)) = new_interpreter.eval_stmt(stmt) { return Ok(result); }`
BodyReturns(r) == r.kind = "Some"

RECURSIVE EvalExpr(_, _, _)
RECURSIVE EvalArgs(_, _, _, _, _, _)
RECURSIVE EvalBody(_, _, _, _)
RECURSIVE EvalStmt(_, _, _)
RECURSIVE EvalBlock(_, _, _, _)
RECURSIVE EvalWhile(_, _, _)
RECURSIVE EvalDoWhile(_, _, _)
RECURSIVE EvalForLoop(_, _, _)

(* Each operator below that takes a result (l, r, a, b, c, i) as a         *)
(* parameter is the part of the source function that runs once that        *)
(* result is known: the code after a `let v = self.eval_expr(..)?;`.       *)

\* Binary: after `let r = self.eval_expr(rhs)?;`
BinaryAfterRhs(l, r, e, d) == IF r.kind # "Ok" THEN r ELSE BinaryApply(r.st, e, l.v, r.v, d)

\* Binary: after `let l = self.eval_expr(lhs)?;`
BinaryAfterLhs(l, e, d) ==
    IF l.kind # "Ok" THEN l ELSE BinaryAfterRhs(l, EvalExpr(l.st, e.rhs, d), e, d)

\* `for (param, arg) in params.iter().zip(args)`: after `let value = self.eval_expr(arg)?;`
ArgsAfterArg(a, new_env, params, args, i, d) ==
    IF a.kind # "Ok" THEN a
    ELSE EvalArgs(a.st, MapInsert(new_env, params[i], a.v), params, args, i + 1, d)

\* each arg is evaluated by self, the value goes into new_env
EvalArgs(st, new_env, params, args, i, d) ==
    IF i > Len(args)
    THEN [st |-> st, kind |-> "Ok", v |-> 0, msg |-> <<>>, new_env |-> new_env]
    ELSE ArgsAfterArg(EvalExpr(st, args[i], d), new_env, params, args, i, d)

\* `for stmt in body` of Call: after new_interpreter.eval_stmt(stmt)
BodyAfterStmt(r, body, i, d) ==
    IF Unwinds(r) THEN r
    ELSE IF BodyReturns(r) THEN OkV(r.st, r.v)
    ELSE EvalBody(r.st, body, i + 1, d)

\* `for stmt in body` of Call, run by new_interpreter (depth d); Ok(0) at the end
EvalBody(cst, body, i, d) ==
    IF i > Len(body) THEN OkV(cst, 0)
    ELSE BodyAfterStmt(EvalStmt(cst, body[i], d), body, i, d)

\* Call: the body has run in new_interpreter (b); self goes on
CallAfterBody(self, b, e, d) ==
    IF Unwinds(b) THEN Abort(CallResume(self, b.st), b.kind)
    ELSE OkV(Emit(CallResume(self, b.st),
                  EvFrame("callend", d, e, b.v, CallResume(self, b.st).env,
                          CallResume(self, b.st).functions)),
             b.v)

\* Call: the arguments have been evaluated (a); st0 is self on entry
CallAfterArgs(st0, a, f, e, d) ==
    IF a.kind # "Ok" THEN a
    ELSE IF a.st.fuel = 0 THEN Abort(a.st, "Diverge")
    ELSE CallAfterBody(Emit(a.st, EvFrame("call", d, e, 0, st0.env, st0.functions)),
                       EvalBody(NewInterpreter(Emit(a.st, EvFrame("call", d, e, 0, st0.env,
                                                                  st0.functions)),
                                               a.new_env),
                                f.body, 1, d + 1),
                       e, d)

\* Call: `if let Some((params, body)) = self.functions.get(name)` found f
CallFound(st, f, e, d) ==
    IF Len(e.args) # Len(f.params)
    THEN ErrR(Emit(Emit(st, EvName("lookup", d, e, 1, e.name)),
                   EvErr(d, e, e.name, ArgCountMsg(e.name))),
              ArgCountMsg(e.name))
    ELSE CallAfterArgs(st, EvalArgs(Emit(st, EvName("lookup", d, e, 1, e.name)), st.env,
                                    f.params, e.args, 1, d),
                       f, e, d)

EvalExpr(st, e, d) ==
    CASE e.kind = "Number" -> OkV(st, e.n)
      [] e.kind = "Bool" -> OkV(st, AsInt(e.b))
      [] e.kind = "Variable" ->
            IF e.name \in DOMAIN st.env THEN OkV(st, st.env[e.name])
            ELSE ErrR(Emit(st, EvErr(d, e, e.name, UndefinedVariableMsg(e.name))),
                      UndefinedVariableMsg(e.name))
      [] e.kind = "Binary" -> BinaryAfterLhs(EvalExpr(st, e.lhs, d), e, d)
      [] e.kind = "Call" ->
            IF e.name \in DOMAIN st.functions
            THEN CallFound(st, st.functions[e.name], e, d)
            ELSE ErrR(Emit(Emit(st, EvName("lookup", d, e, 0, e.name)),
                           EvErr(d, e, e.name, UndefinedFunctionMsg(e.name))),
                      UndefinedFunctionMsg(e.name))

\* `for stmt in block { self.eval_stmt(stmt)?; }`: after one eval_stmt
BlockAfterStmt(r, block, i, d) ==
    IF r.kind \in {"None", "Some"} THEN EvalBlock(r.st, block, i + 1, d) ELSE r

EvalBlock(st, block, i, d) ==
    IF i > Len(block) THEN OkNone(st)
    ELSE BlockAfterStmt(EvalStmt(st, block[i], d), block, i, d)

\* While: the body has run (b); back to the test
WhileAfterBody(b, s, d) ==
    IF b.kind # "None" THEN b ELSE EvalWhile(Emit(b.st, Ev("bodyend", d, s, 0)), s, d)

\* While: cond has been evaluated (c)
WhileAfterCond(c, s, d) ==
    IF c.kind # "Ok" THEN c
    ELSE IF c.v = 0 THEN OkNone(Emit(Emit(c.st, Ev("cond", d, s, c.v)), Ev("exit", d, s, 0)))
    ELSE IF c.st.fuel = 0 THEN Abort(c.st, "Diverge")
    ELSE WhileAfterBody(EvalBlock(Emit(Emit([c.st EXCEPT !.fuel = @ - 1],
                                            Ev("cond", d, s, c.v)),
                                       Ev("body", d, s, 0)),
                                  s.body, 1, d),
                        s, d)

\* `while self.eval_expr(cond)? != 0 { body }`
EvalWhile(st, s, d) == WhileAfterCond(EvalExpr(st, s.cond, d), s, d)

\* DoWhile: cond has been evaluated (c)
DoWhileAfterCond(c, s, d) ==
    IF c.kind # "Ok" THEN c
    ELSE IF DoWhileBreaks(c.v)
         THEN OkNone(Emit(Emit(c.st, Ev("cond", d, s, c.v)), Ev("exit", d, s, 0)))
         ELSE EvalDoWhile(Emit(c.st, Ev("cond", d, s, c.v)), s, d)

\* DoWhile: the body has run (b)
DoWhileAfterBody(b, s, d) ==
    IF b.kind # "None" THEN b
    ELSE DoWhileAfterCond(EvalExpr(Emit(b.st, Ev("bodyend", d, s, 0)), s.cond, d), s, d)

\* `loop { body; if self.eval_expr(cond)? == 0 { break; } }`
EvalDoWhile(st, s, d) ==
    IF st.fuel = 0 THEN Abort(st, "Diverge")
    ELSE DoWhileAfterBody(EvalBlock(Emit([st EXCEPT !.fuel = @ - 1], Ev("body", d, s, 0)),
                                    s.body, 1, d),
                          s, d)

\* For: step has been evaluated (i): rebind, back to the test
ForAfterStep(i, s, d) ==
    IF i.kind # "Ok" THEN i ELSE EvalForLoop(ForBound(i.st, s, "step", i.v, d), s, d)

\* For: the body has run (b)
ForAfterBody(b, s, d) ==
    IF b.kind # "None" THEN b
    ELSE ForAfterStep(EvalExpr(Emit(b.st, Ev("bodyend", d, s, 0)), s.step, d), s, d)

\* For: cond has been evaluated (c)
ForAfterCond(c, s, d) ==
    IF c.kind # "Ok" THEN c
    ELSE IF c.v = 0
         THEN OkNone(Emit(Emit(c.st, Ev("cond", d, s, c.v)),
                          EvFrame("exit", d, s, 0, c.st.env, EmptyMap)))
    ELSE IF c.st.fuel = 0 THEN Abort(c.st, "Diverge")
    ELSE ForAfterBody(EvalBlock(Emit(Emit([c.st EXCEPT !.fuel = @ - 1],
                                          Ev("cond", d, s, c.v)),
                                     Ev("body", d, s, 0)),
                                s.body, 1, d),
                      s, d)

\* the `while` of For, entered after the loop variable is bound to start
EvalForLoop(st, s, d) == ForAfterCond(EvalExpr(st, s.cond, d), s, d)

\* For: start has been evaluated (i): bind, enter the loop
ForAfterStart(i, s, d) ==
    IF i.kind # "Ok" THEN i ELSE EvalForLoop(ForBound(i.st, s, "start", i.v, d), s, d)

\* Let: after `let value = self.eval_expr(expr)?;`
LetAfterExpr(r, s) == IF r.kind # "Ok" THEN r ELSE OkNone(EnvInsert(r.st, s.name, r.v))

\* Assign: after `let value = self.eval_expr(expr)?;`
AssignAfterExpr(r, s, d) ==
    IF r.kind # "Ok" THEN r
    ELSE IF s.name \in DOMAIN r.st.env THEN OkNone(EnvInsert(r.st, s.name, r.v))
    ELSE ErrR(Emit(r.st, EvErr(d, s, s.name, UndefinedVariableMsg(s.name))),
              UndefinedVariableMsg(s.name))

\* If: after `self.eval_expr(cond)?`
IfAfterCond(c, s, d) ==
    IF c.kind # "Ok" THEN c
    ELSE IF c.v # 0 THEN EvalBlock(c.st, s.then_block, 1, d)
    ELSE EvalBlock(c.st, s.else_block, 1, d)

\* Return: `return Ok(Some(self.eval_expr(expr)?));`
ReturnAfterExpr(r, s, d) ==
    IF r.kind # "Ok" THEN r ELSE OkSome(Emit(r.st, Ev("return", d, s, r.v)), r.v)

\* Expr: `self.eval_expr(expr)?;`
ExprAfterExpr(r) == IF r.kind # "Ok" THEN r ELSE OkNone(r.st)

\* the statement is entered
Enter(st, s, d) == Emit(st, Ev("exec", d, s, 0))

EvalStmt(st, s, d) ==
    CASE s.kind = "Let" -> LetAfterExpr(EvalExpr(Enter(st, s, d), s.expr, d), s)
      [] s.kind = "Assign" -> AssignAfterExpr(EvalExpr(Enter(st, s, d), s.expr, d), s, d)
      [] s.kind = "If" -> IfAfterCond(EvalExpr(Enter(st, s, d), s.cond, d), s, d)
      [] s.kind = "While" -> EvalWhile(Enter(st, s, d), s, d)
      [] s.kind = "DoWhile" -> EvalDoWhile(Enter(st, s, d), s, d)
      [] s.kind = "For" -> ForAfterStart(EvalExpr(Enter(st, s, d), s.start, d), s, d)
      [] s.kind = "FnDecl" ->
            OkNone(Emit(FnInsert(Enter(st, s, d), s), EvName("fndecl", d, s, 0, s.name)))
      [] s.kind = "Return" -> ReturnAfterExpr(EvalExpr(Enter(st, s, d), s.expr, d), s, d)
      [] s.kind = "Expr" -> ExprAfterExpr(EvalExpr(Enter(st, s, d), s.expr, d))

(***************************************************************************)
(* Parser (src/src/parser.rs) over the tokens of src/src/lexer.rs.         *)
(* `ps` is the receiver: pos, plus the error a `?` is carrying (NoError    *)
(* while there is none) and the log.  Every operation passes a `ps` that   *)
(* carries an error through untouched, which is what `?` does.             *)
(***************************************************************************)
T(t) == [t |-> t]
TIdent(name) == [t |-> "Ident", name |-> name]
TNumber(n) == [t |-> "Number", n |-> n]
NoneTok == [t |-> "None"]       \* Option::None of peek

\* CompilerError::SyntaxError(String): the text and what {:?} prints into it
SyntaxMsg(text, expected, found) == [text |-> text, expected |-> expected, found |-> found]
NoError == SyntaxMsg("", NoneTok, NoneTok)
ExpectedMsg(expected, found) == SyntaxMsg("Expected {:?}, found {:?}", expected, found)
UnexpectedMsg(found) == SyntaxMsg("Unexpected token {:?} in expression", NoneTok, found)
PlainMsg(text) == SyntaxMsg(text, NoneTok, NoneTok)

Peek(toks, ps) == IF ps.pos < Len(toks) THEN toks[ps.pos + 1] ELSE NoneTok
Advance(ps) == [ps EXCEPT !.pos = @ + 1]
Failed(ps) == ps.err # NoError
Fail(ps, msg) == [ps EXCEPT !.err = msg]
Note(ps, what, expected, found) ==
    [ps EXCEPT !.plog = Append(@, [what |-> what, expected |-> expected,
                                   found |-> found, at |-> ps.pos])]
Res(ps, val) == [ps |-> ps, val |-> IF Failed(ps) THEN NoNode ELSE val]

\* `if self.peek() == Some(&expected)`, with what was seen noted in the log
Seen(toks, ps, what, expected) == Note(ps, what, expected, Peek(toks, ps))

\* Expect that lets the end of input stand for the expected token
Expect_LenientAtEnd(toks, ps, expected) ==
    IF Failed(ps) THEN ps
    ELSE IF Peek(toks, ps) = expected THEN Advance(Seen(toks, ps, "expect", expected))
    ELSE IF Peek(toks, ps) = NoneTok THEN Seen(toks, ps, "expect", expected)
    ELSE Fail(Seen(toks, ps, "expect", expected), ExpectedMsg(expected, Peek(toks, ps)))

\* Expect that leaves the token it has matched in place
Expect_Stay(toks, ps, expected) ==
    IF Failed(ps) THEN ps
    ELSE IF Peek(toks, ps) = expected THEN Seen(toks, ps, "expect", expected)
    ELSE Fail(Seen(toks, ps, "expect", expected), ExpectedMsg(expected, Peek(toks, ps)))

Expect(toks, ps, expected) ==
    IF Failed(ps) THEN ps
    ELSE IF Peek(toks, ps) = expected THEN Advance(Seen(toks, ps, "expect", expected))
    ELSE Fail(Seen(toks, ps, "expect", expected), ExpectedMsg(expected, Peek(toks, ps)))

\* `if let Some(Token::Ident(name)) = self.peek() { advance; name } else { return Err(text) }`
ExpectIdent(toks, ps, text) ==
    IF Failed(ps) THEN Res(ps, "")
    ELSE IF Peek(toks, ps).t = "Ident"
         THEN Res(Advance(Seen(toks, ps, "ident", TIdent(""))), Peek(toks, ps).name)
         ELSE [ps |-> Fail(Seen(toks, ps, "ident", TIdent("")), PlainMsg(text)), val |-> ""]

\* the operator each tier's `match token` yields
EqualityOp(tok) == IF tok.t = "Eq" THEN "Eq" ELSE "Neq"
ComparisonOp(tok) == IF tok.t = "Gt" THEN "Gt" ELSE "Lt"
TermOp(tok) == IF tok.t = "Plus" THEN "Add" ELSE "Sub"
FactorOp(tok) == IF tok.t = "Star" THEN "Mul" ELSE "Div"

\* UnaryDesugar with the operands the wrong way round
UnaryDesugar_Swapped(expr) == Binary(expr, "Sub", Number(0))

\* Expr::Binary(Box::new(Expr::Number(0)), BinOp::Sub, Box::new(expr))
UnaryDesugar(expr) == Binary(Number(0), "Sub", expr)

RECURSIVE ParseStmt(_, _)
RECURSIVE ParseBlock(_, _)
RECURSIVE ParseBlockLoop(_, _, _)
RECURSIVE ParseExpr(_, _)
RECURSIVE ParseEqualityLoop(_, _, _)
RECURSIVE ParseComparison(_, _)
RECURSIVE ParseComparisonLoop(_, _, _)
RECURSIVE ParseTerm(_, _)
RECURSIVE ParseTermLoop(_, _, _)
RECURSIVE ParseFactor(_, _)
RECURSIVE ParseFactorLoop(_, _, _)
RECURSIVE ParseUnary(_, _)
RECURSIVE ParsePrimary(_, _)
RECURSIVE ParseArgsLoop(_, _, _)
RECURSIVE ParseParamsLoop(_, _, _)

(* As in the interpreter, an operator that takes a parse result (l, r, a,  *)
(* expr, cond, body, ...) is the rest of the source function after the     *)
(* `let v = self.parse_...()?;` that produced it.                          *)

\* parse_equality: after `let right = self.parse_comparison()?;`
ParseEqualityAfterRight(toks, r, expr, tok) ==
    IF Failed(r.ps) THEN r
    ELSE ParseEqualityLoop(toks, r.ps, Binary(expr, EqualityOp(tok), r.val))

\* `while let Some(token) = self.peek()` of parse_equality
ParseEqualityLoop(toks, ps, expr) ==
    IF Peek(toks, ps).t \in {"Eq", "Neq"}
    THEN ParseEqualityAfterRight(toks, ParseComparison(toks, Advance(ps)), expr, Peek(toks, ps))
    ELSE Res(ps, expr)

\* parse_equality: after `let mut expr = self.parse_comparison()?;`
ParseEqualityAfterLeft(toks, l) ==
    IF Failed(l.ps) THEN l ELSE ParseEqualityLoop(toks, l.ps, l.val)

ParseEquality(toks, ps) == ParseEqualityAfterLeft(toks, ParseComparison(toks, ps))

\* parse_comparison: after `let right = self.parse_term()?;`
ParseComparisonAfterRight(toks, r, expr, tok) ==
    IF Failed(r.ps) THEN r
    ELSE ParseComparisonLoop(toks, r.ps, Binary(expr, ComparisonOp(tok), r.val))

\* `while let Some(token) = self.peek()` of parse_comparison
ParseComparisonLoop(toks, ps, expr) ==
    IF Peek(toks, ps).t \in {"Gt", "Lt"}
    THEN ParseComparisonAfterRight(toks, ParseTerm(toks, Advance(ps)), expr, Peek(toks, ps))
    ELSE Res(ps, expr)

\* parse_comparison: after `let mut expr = self.parse_term()?;`
ParseComparisonAfterLeft(toks, l) ==
    IF Failed(l.ps) THEN l ELSE ParseComparisonLoop(toks, l.ps, l.val)

ParseComparison(toks, ps) == ParseComparisonAfterLeft(toks, ParseTerm(toks, ps))

\* parse_term: after `let right = self.parse_factor()?;`
ParseTermAfterRight(toks, r, expr, tok) ==
    IF Failed(r.ps) THEN r
    ELSE ParseTermLoop(toks, r.ps, Binary(expr, TermOp(tok), r.val))

\* `while let Some(token) = self.peek()` of parse_term
ParseTermLoop(toks, ps, expr) ==
    IF Peek(toks, ps).t \in {"Plus", "Minus"}
    THEN ParseTermAfterRight(toks, ParseFactor(toks, Advance(ps)), expr, Peek(toks, ps))
    ELSE Res(ps, expr)

\* parse_term: after `let mut expr = self.parse_factor()?;`
ParseTermAfterLeft(toks, l) ==
    IF Failed(l.ps) THEN l ELSE ParseTermLoop(toks, l.ps, l.val)

ParseTerm(toks, ps) == ParseTermAfterLeft(toks, ParseFactor(toks, ps))

\* parse_factor: after `let right = self.parse_unary()?;`
ParseFactorAfterRight(toks, r, expr, tok) ==
    IF Failed(r.ps) THEN r
    ELSE ParseFactorLoop(toks, r.ps, Binary(expr, FactorOp(tok), r.val))

\* `while let Some(token) = self.peek()` of parse_factor
ParseFactorLoop(toks, ps, expr) ==
    IF Peek(toks, ps).t \in {"Star", "Slash"}
    THEN ParseFactorAfterRight(toks, ParseUnary(toks, Advance(ps)), expr, Peek(toks, ps))
    ELSE Res(ps, expr)

\* parse_factor: after `let mut expr = self.parse_unary()?;`
ParseFactorAfterLeft(toks, l) ==
    IF Failed(l.ps) THEN l ELSE ParseFactorLoop(toks, l.ps, l.val)

ParseFactor(toks, ps) == ParseFactorAfterLeft(toks, ParseUnary(toks, ps))

\* parse_unary: after `let expr = self.parse_primary()?;`
ParseUnaryAfterOperand(r) == Res(r.ps, UnaryDesugar(r.val))

ParseUnary(toks, ps) ==
    IF Peek(toks, ps).t = "Minus"
    THEN ParseUnaryAfterOperand(ParsePrimary(toks, Advance(ps)))
    ELSE ParsePrimary(toks, ps)

\* the argument loop: after `args.push(self.parse_expr()?);`
ParseArgsAfterExpr(toks, a, args) ==
    IF Failed(a.ps) THEN a
    ELSE IF Peek(toks, a.ps) = T("Comma")
         THEN ParseArgsLoop(toks, Advance(a.ps), Append(args, a.val))
         ELSE Res(a.ps, Append(args, a.val))

\* the `loop` over the arguments of a call; args is the Vec so far
ParseArgsLoop(toks, ps, args) == ParseArgsAfterExpr(toks, ParseExpr(toks, ps), args)

\* a call: the arguments are parsed (a), `self.expect(Token::RParen)?`
ParseCallAfterArgs(toks, a, name) == Res(Expect(toks, a.ps, T("RParen")), Call(name, a.val))

\* `if self.peek() != Some(&Token::RParen) { loop {..} }`; ps is past the LParen
ParseCallArgs(toks, ps) ==
    IF Peek(toks, ps) # T("RParen") THEN ParseArgsLoop(toks, ps, <<>>) ELSE Res(ps, <<>>)

\* Token::Ident(name): a call if an LParen follows, a variable otherwise; ps is past the name
ParseCallOrVariable(toks, ps, name) ==
    IF Peek(toks, ps) = T("LParen")
    THEN ParseCallAfterArgs(toks, ParseCallArgs(toks, Advance(ps)), name)
    ELSE Res(ps, Variable(name))

\* Token::LParen: after `let expr = self.parse_expr()?;`
ParseGroupAfterExpr(toks, e) == Res(Expect(toks, e.ps, T("RParen")), e.val)

\* `match self.advance()` of parse_primary; ps has noted tok and is still before it
ParsePrimaryMatch(toks, ps, tok) ==
    CASE tok.t = "Number" -> Res(Advance(ps), Number(tok.n))
      [] tok.t = "True" -> Res(Advance(ps), Bool(TRUE))
      [] tok.t = "False" -> Res(Advance(ps), Bool(FALSE))
      [] tok.t = "Ident" -> ParseCallOrVariable(toks, Advance(ps), tok.name)
      [] tok.t = "LParen" -> ParseGroupAfterExpr(toks, ParseExpr(toks, Advance(ps)))
      [] OTHER -> Res(Fail(ps, UnexpectedMsg(tok)), NoNode)

ParsePrimary(toks, ps) ==
    IF Failed(ps) THEN Res(ps, NoNode)
    ELSE ParsePrimaryMatch(toks, Seen(toks, ps, "primary", NoneTok), Peek(toks, ps))

ParseExpr(toks, ps) == IF Failed(ps) THEN Res(ps, NoNode) ELSE ParseEquality(toks, ps)

\* the block loop: after `stmts.push(self.parse_stmt()?);`
ParseBlockAfterStmt(toks, r, block) ==
    IF Failed(r.ps) THEN r ELSE ParseBlockLoop(toks, r.ps, Append(block, r.val))

\* `while self.peek() != Some(&Token::RBrace) { stmts.push(self.parse_stmt()?); }`
ParseBlockLoop(toks, ps, block) ==
    IF Peek(toks, ps) # T("RBrace")
    THEN ParseBlockAfterStmt(toks, ParseStmt(toks, ps), block)
    ELSE Res(ps, block)

\* parse_block: the statements are parsed (b), `self.expect(Token::RBrace)?`
ParseBlockAfterStmts(toks, b) == Res(Expect(toks, b.ps, T("RBrace")), b.val)

\* parse_block: after `self.expect(Token::LBrace)?`
ParseBlockAfterLBrace(toks, ps) ==
    IF Failed(ps) THEN Res(ps, NoNode) ELSE ParseBlockLoop(toks, ps, <<>>)

ParseBlock(toks, ps) ==
    ParseBlockAfterStmts(toks, ParseBlockAfterLBrace(toks, Expect(toks, ps, T("LBrace"))))

ParseLetAfterExpr(toks, name, expr) ==
    Res(Expect(toks, expr.ps, T("Semicolon")), Let(name.val, expr.val))

ParseLetAfterName(toks, name) ==
    ParseLetAfterExpr(toks, name, ParseExpr(toks, Expect(toks, name.ps, T("Equal"))))

ParseLet(toks, ps) ==
    ParseLetAfterName(toks, ExpectIdent(toks, Expect(toks, ps, T("Let")),
                                        "Expected identifier after let"))

ParseIfAfterElse(cond, then_block, else_block) ==
    Res(else_block.ps, If(cond.val, then_block.val, else_block.val))

\* `if self.peek() == Some(&Token::Else) { advance; Some(parse_block) } else { None }`
ParseElse(toks, ps) ==
    IF ~Failed(ps) /\ Peek(toks, ps) = T("Else")
    THEN ParseBlock(toks, Advance(ps))
    ELSE Res(ps, <<>>)

ParseIfAfterThen(toks, cond, then_block) ==
    ParseIfAfterElse(cond, then_block, ParseElse(toks, then_block.ps))

ParseIfAfterCond(toks, cond) ==
    ParseIfAfterThen(toks, cond, ParseBlock(toks, Expect(toks, cond.ps, T("RParen"))))

ParseIf(toks, ps) ==
    ParseIfAfterCond(toks, ParseExpr(toks, Expect(toks, Expect(toks, ps, T("If")), T("LParen"))))

ParseWhileAfterBody(cond, body) == Res(body.ps, While(cond.val, body.val))

ParseWhileAfterCond(toks, cond) ==
    ParseWhileAfterBody(cond, ParseBlock(toks, Expect(toks, cond.ps, T("RParen"))))

ParseWhile(toks, ps) ==
    ParseWhileAfterCond(toks, ParseExpr(toks, Expect(toks, Expect(toks, ps, T("While")),
                                                     T("LParen"))))

ParseDoWhileAfterCond(toks, body, cond) ==
    Res(Expect(toks, Expect(toks, cond.ps, T("RParen")), T("Semicolon")),
        DoWhile(body.val, cond.val))

ParseDoWhileAfterBody(toks, body) ==
    ParseDoWhileAfterCond(toks, body,
                          ParseExpr(toks, Expect(toks, Expect(toks, body.ps, T("While")),
                                                 T("LParen"))))

ParseDoWhile(toks, ps) == ParseDoWhileAfterBody(toks, ParseBlock(toks, Expect(toks, ps, T("Do"))))

ParseForAfterBody(var, start, cond, step, body) ==
    Res(body.ps, For(var.val, start.val, cond.val, step.val, body.val))

ParseForAfterStep(toks, var, start, cond, step) ==
    ParseForAfterBody(var, start, cond, step,
                      ParseBlock(toks, Expect(toks, step.ps, T("RParen"))))

ParseForAfterCond(toks, var, start, cond) ==
    ParseForAfterStep(toks, var, start, cond,
                      ParseExpr(toks, Expect(toks, cond.ps, T("Semicolon"))))

ParseForAfterStart(toks, var, start) ==
    ParseForAfterCond(toks, var, start, ParseExpr(toks, Expect(toks, start.ps, T("Semicolon"))))

ParseForAfterVar(toks, var) ==
    ParseForAfterStart(toks, var, ParseExpr(toks, Expect(toks, var.ps, T("Equal"))))

ParseFor(toks, ps) ==
    ParseForAfterVar(toks, ExpectIdent(toks, Expect(toks, Expect(toks, ps, T("For")), T("LParen")),
                                       "Expected identifier in for loop"))

\* the parameter loop: after the `if let Some(Token::Ident(param))`
ParseParamsAfterName(toks, param, params) ==
    IF Failed(param.ps) THEN Res(param.ps, NoNode)
    ELSE IF Peek(toks, param.ps) = T("Comma")
         THEN ParseParamsLoop(toks, Advance(param.ps), Append(params, param.val))
         ELSE Res(param.ps, Append(params, param.val))

\* the `loop` over the parameter names; params is the Vec so far
ParseParamsLoop(toks, ps, params) ==
    ParseParamsAfterName(toks, ExpectIdent(toks, ps, "Expected parameter name"), params)

ParseFnDeclAfterBody(name, params, body) ==
    Res(body.ps, FnDecl(name.val, params.val, body.val))

ParseFnDeclAfterParams(toks, name, params) ==
    ParseFnDeclAfterBody(name, params, ParseBlock(toks, Expect(toks, params.ps, T("RParen"))))

\* `if self.peek() != Some(&Token::RParen) { loop {..} }`; ps is past the LParen
ParseParams(toks, ps) ==
    IF ~Failed(ps) /\ Peek(toks, ps) # T("RParen")
    THEN ParseParamsLoop(toks, ps, <<>>)
    ELSE Res(ps, <<>>)

ParseFnDeclAfterName(toks, name) ==
    ParseFnDeclAfterParams(toks, name, ParseParams(toks, Expect(toks, name.ps, T("LParen"))))

ParseFnDecl(toks, ps) ==
    ParseFnDeclAfterName(toks, ExpectIdent(toks, Expect(toks, ps, T("Fn")),
                                           "Expected function name"))

ParseReturnAfterExpr(toks, expr) ==
    Res(Expect(toks, expr.ps, T("Semicolon")), Return(expr.val))

ParseReturn(toks, ps) == ParseReturnAfterExpr(toks, ParseExpr(toks, Expect(toks, ps, T("Return"))))

\* Token::Ident then Token::Equal: after `let expr = self.parse_expr()?;`
ParseAssignAfterExpr(toks, name, expr) ==
    Res(Expect(toks, expr.ps, T("Semicolon")), Assign(name, expr.val))

\* `_ =>`: after `let expr = self.parse_expr()?;`
ParseExprStmtAfterExpr(toks, expr) ==
    Res(Expect(toks, expr.ps, T("Semicolon")), ExprStmt(expr.val))

\* ParseIdentStmt that goes back to the identifier and parses a whole expression
ParseIdentStmt_WholeExpr(toks, ps, name) ==
    IF Peek(toks, ps) = T("Equal")
    THEN ParseAssignAfterExpr(toks, name, ParseExpr(toks, Advance(ps)))
    ELSE ParseExprStmtAfterExpr(toks, ParseExpr(toks, [ps EXCEPT !.pos = @ - 1]))

\* Token::Ident(name): ps is past the name
ParseIdentStmt(toks, ps, name) ==
    IF Peek(toks, ps) = T("Equal")
    THEN ParseAssignAfterExpr(toks, name, ParseExpr(toks, Advance(ps)))
    ELSE Res(Expect(toks, ps, T("Semicolon")), ExprStmt(Variable(name)))

\* `match self.peek()` of parse_stmt
ParseStmtMatch(toks, ps, tok) ==
    CASE tok.t = "Let" -> ParseLet(toks, ps)
      [] tok.t = "If" -> ParseIf(toks, ps)
      [] tok.t = "While" -> ParseWhile(toks, ps)
      [] tok.t = "Do" -> ParseDoWhile(toks, ps)
      [] tok.t = "For" -> ParseFor(toks, ps)
      [] tok.t = "Fn" -> ParseFnDecl(toks, ps)
      [] tok.t = "Return" -> ParseReturn(toks, ps)
      [] tok.t = "Ident" -> ParseIdentStmt(toks, Advance(ps), tok.name)
      [] OTHER -> ParseExprStmtAfterExpr(toks, ParseExpr(toks, ps))

ParseStmt(toks, ps) == ParseStmtMatch(toks, ps, Peek(toks, ps))

(***************************************************************************)
(* Programs the interpreter is run on.  Variables x, y, i, r, z; functions *)
(* f, g, add.                                                              *)
(***************************************************************************)
V(name) == Variable(name)
N(n) == Number(n)
Plus1(name) == Binary(V(name), "Add", N(1))
Minus1(name) == Binary(V(name), "Sub", N(1))

\* fn f(x) { x = x + 1; return x; }
FnIncr == FnDecl("f", <<"x">>, <<Assign("x", Plus1("x")), Return(V("x"))>>)
\* fn f(n) { if (n > 0) { return 1; } else { return 2; } return 3; }
FnIfReturn ==
    FnDecl("f", <<"n">>, <<If(Binary(V("n"), "Gt", N(0)), <<Return(N(1))>>, <<Return(N(2))>>),
                           Return(N(3))>>)
\* fn f(n) { while (n > 0) { n = n - 1; return n; } return 9; }
FnWhileReturn ==
    FnDecl("f", <<"n">>, <<While(Binary(V("n"), "Gt", N(0)),
                                 <<Assign("n", Minus1("n")), Return(V("n"))>>),
                           Return(N(9))>>)
\* fn f(n) { do { return 4; } while (n > 5); for (i = 0; i < 1; i = i + 1) { return 6; } }
FnLoopReturn ==
    FnDecl("f", <<"n">>, <<DoWhile(<<Return(N(4))>>, Binary(V("n"), "Gt", N(5))),
                           For("i", N(0), Binary(V("i"), "Lt", N(1)), Plus1("i"),
                               <<Return(N(6))>>)>>)
\* fn g() { y = 1; return 3; }
FnAssignY == FnDecl("g", <<>>, <<Assign("y", N(1)), Return(N(3))>>)
\* fn g() { let x = 5; fn f(n) { return 0; } for (i = 7; i < 8; i = i + 1) { } return x; }
FnLocal ==
    FnDecl("g", <<>>, <<Let("x", N(5)), FnDecl("f", <<"n">>, <<Return(N(0))>>),
                        For("i", N(7), Binary(V("i"), "Lt", N(8)), Plus1("i"), <<>>),
                        Return(V("x"))>>)
\* fn f(n) { let r = 0; if (n > 0) { r = f(n - 1) + 1; } return r; }
FnRec ==
    FnDecl("f", <<"n">>, <<Let("r", N(0)),
                           If(Binary(V("n"), "Gt", N(0)),
                              <<Assign("r", Binary(Call("f", <<Minus1("n")>>), "Add", N(1)))>>,
                              <<>>),
                           Return(V("r"))>>)
\* fn add(a, b) { return a + b; }
FnAdd == FnDecl("add", <<"a", "b">>, <<Return(Binary(V("a"), "Add", V("b")))>>)

\* for (i = 0; i < 5; i = i + 1) { }
ForFive == For("i", N(0), Binary(V("i"), "Lt", N(5)), Plus1("i"), <<>>)
\* for (i = 1; i < 6; i = i + y) { y = y + 1; }
ForBody == For("i", N(1), Binary(V("i"), "Lt", N(6)), Binary(V("i"), "Add", V("y")),
               <<Assign("y", Plus1("y"))>>)
\* do { y = y - 1; } while (y > 100);
DoOnce == DoWhile(<<Assign("y", Minus1("y"))>>, Binary(V("y"), "Gt", N(100)))
\* do { y = y - 1; } while (y > 7);
DoSome == DoWhile(<<Assign("y", Minus1("y"))>>, Binary(V("y"), "Gt", N(7)))

StmtPool ==
    { Let("x", N(10)), Let("x", N(0)), Let("y", N(10)),
      Let("y", Call("f", <<V("x")>>)), Let("y", Call("f", <<N(2)>>)),
      Let("y", Call("f", <<>>)), Let("y", Call("g", <<>>)),
      Let("y", Binary(N(7), "Div", V("x"))),
      Assign("y", Minus1("y")), ExprStmt(V("z")), Return(N(1)),
      ForFive, ForBody, DoOnce, DoSome,
      FnIncr, FnIfReturn, FnWhileReturn, FnLoopReturn, FnAssignY, FnLocal, FnRec }

\* the sequences of `shorter`, and each of them with one more element of S
Extended(shorter, S) == shorter \cup {Append(q, e) : q \in shorter, e \in S}

RECURSIVE SeqsUpTo(_, _)
SeqsUpTo(S, n) == IF n = 0 THEN {<<>>} ELSE Extended(SeqsUpTo(S, n - 1), S)

\* let x = 10; fn f(x) { x = x + 1; return x; } let y = f(x);
IsolationProgram == <<Let("x", N(10)), FnIncr, Let("y", Call("f", <<V("x")>>))>>
\* the canonical sample of main.rs, up to `let z = add(x, y);`
SampleProgram ==
    <<Let("x", N(10)), Let("y", N(0)),
      If(Binary(V("x"), "Gt", N(5)), <<Assign("y", N(1))>>, <<Assign("y", N(2))>>),
      While(Binary(V("y"), "Lt", N(5)), <<Assign("y", Plus1("y"))>>),
      DoWhile(<<Assign("y", Minus1("y"))>>, Binary(V("y"), "Gt", N(0))),
      FnAdd, Let("z", Call("add", <<V("x"), V("y")>>))>>
\* a function declared by a callee, then called by the caller
NestedDeclProgram == <<FnLocal, Let("y", Call("g", <<>>)), Let("y", Call("f", <<N(2)>>))>>
\* fn g() { let x = z; let x = f(2); fn f(n) { return 0; } return f(2); }
\* let y = g(); let x = 1;
SwallowProgram ==
    <<FnDecl("g", <<>>, <<Let("x", V("z")), Let("x", Call("f", <<N(2)>>)),
                          FnDecl("f", <<"n">>, <<Return(N(0))>>),
                          Return(Call("f", <<N(2)>>))>>),
      Let("y", Call("g", <<>>)), Let("x", N(1))>>

Scenarios == {IsolationProgram, SampleProgram, NestedDeclProgram, SwallowProgram}
Programs == SeqsUpTo(StmtPool, MaxProgLen) \cup Scenarios

(***************************************************************************)
(* Interpreter::new and Interpreter::interpret.                            *)
(***************************************************************************)
PResult(kind, msg) == [kind |-> kind, msg |-> msg]
Running == [kind |-> "Running", msg |-> <<>>]
Idle == [kind |-> "Idle", msg |-> <<>>]
Returned(kind, msg) == [kind |-> kind, msg |-> msg]

ParserIdle ==
    /\ tokens = <<>>
    /\ pos = 0
    /\ stmts = <<>>
    /\ presult = PResult("Idle", NoError)
    /\ plog = <<>>

\* no Lexer has been made
LexerIdle ==
    /\ input = <<>>
    /\ lpos = 0
    /\ ltokens = <<>>
    /\ lresult = Idle
    /\ runs = <<>>
    /\ overflow_checks = FALSE

\* TypeChecker::new()
TypeCheckerNew ==
    /\ tip = 0
    /\ tenv = EmptyMap
    /\ tfunctions = EmptyMap
    /\ tlog = <<>>

\* no check_program has been called
CheckerIdle == TypeCheckerNew /\ tresult = Idle

InterpreterNew ==
    /\ ip = 0
    /\ env = EmptyMap
    /\ functions = EmptyMap
    /\ log = <<>>

Init ==
    /\ ParserIdle
    /\ program \in Programs
    /\ InterpreterNew
    /\ result = Running
    /\ LexerIdle
    /\ CheckerIdle

Self == [env |-> env, functions |-> functions, log |-> log, fuel |-> MaxFuel]

\* `self.eval_stmt(stmt)?` of interpret has come back with r
InterpretAfterStmt(r) ==
    /\ r.kind # "Diverge"
    /\ env' = r.st.env
    /\ functions' = r.st.functions
    /\ log' = r.st.log
    /\ IF r.kind \in {"None", "Some"}
       THEN ip' = ip + 1 /\ result' = result
       ELSE ip' = ip /\ result' = Returned(r.kind, r.msg)

\* one iteration of `for stmt in program { self.eval_stmt(stmt)?; }`
InterpretStmt ==
    /\ result = Running
    /\ ip < Len(program)
    /\ InterpretAfterStmt(EvalStmt(Self, program[ip + 1], 0))
    /\ UNCHANGED <<tokens, pos, stmts, presult, plog, program, lexVars, tcVars>>

\* the loop is over: Ok(())
InterpretOk ==
    /\ result = Running
    /\ ip = Len(program)
    /\ result' = Returned("Ok", <<>>)
    /\ UNCHANGED <<tokens, pos, stmts, presult, plog, program, ip, env, functions, log, lexVars, tcVars>>

Next == InterpretStmt \/ InterpretOk

Spec == Init /\ [][Next]_vars

(***************************************************************************)
(* Sources the parser is run on, as the token sequences the lexer makes of *)
(* them.                                                                   *)
(***************************************************************************)
MaxExprLen == 5     \* longest generated expression, in tokens

Semi == T("Semicolon")
LetTokens(name) == <<T("Let"), TIdent(name), T("Equal")>>

\* let a = 10 - 3 - 2 ; let b = 2 + 3 * 4 ; let c = - 5 + 3 ;
SrcArithmetic ==
    LetTokens("a") \o <<TNumber(10), T("Minus"), TNumber(3), T("Minus"), TNumber(2), Semi>>
    \o LetTokens("b") \o <<TNumber(2), T("Plus"), TNumber(3), T("Star"), TNumber(4), Semi>>
    \o LetTokens("c") \o <<T("Minus"), TNumber(5), T("Plus"), TNumber(3), Semi>>

\* let w = 100
SrcNoSemicolon == LetTokens("w") \o <<TNumber(100)>>

\* the source_code of main
SrcSample ==
    LetTokens("x") \o <<TNumber(10), Semi>> \o LetTokens("y") \o <<TNumber(0), Semi>>
    \o <<T("If"), T("LParen"), TIdent("x"), T("Gt"), TNumber(5), T("RParen"),
         T("LBrace"), TIdent("y"), T("Equal"), TNumber(1), Semi, T("RBrace"),
         T("Else"), T("LBrace"), TIdent("y"), T("Equal"), TNumber(2), Semi, T("RBrace")>>
    \o <<T("While"), T("LParen"), TIdent("y"), T("Lt"), TNumber(5), T("RParen"),
         T("LBrace"), TIdent("y"), T("Equal"), TIdent("y"), T("Plus"), TNumber(1), Semi,
         T("RBrace")>>
    \o <<T("Do"), T("LBrace"), TIdent("y"), T("Equal"), TIdent("y"), T("Minus"), TNumber(1),
         Semi, T("RBrace"), T("While"), T("LParen"), TIdent("y"), T("Gt"), TNumber(0),
         T("RParen"), Semi>>
    \o <<T("Fn"), TIdent("add"), T("LParen"), TIdent("a"), T("Comma"), TIdent("b"),
         T("RParen"), T("LBrace"), T("Return"), TIdent("a"), T("Plus"), TIdent("b"), Semi,
         T("RBrace")>>
    \o LetTokens("z") \o <<TIdent("add"), T("LParen"), TIdent("x"), T("Comma"), TIdent("y"),
                           T("RParen"), Semi>>
    \o SrcNoSemicolon

\* for (i = 0; i < 5; i = i + 1) { } return (i - 1) * 2 / 3 != true == false;
SrcFor ==
    <<T("For"), T("LParen"), TIdent("i"), T("Equal"), TNumber(0), Semi,
      TIdent("i"), T("Lt"), TNumber(5), Semi, TIdent("i"), T("Plus"), TNumber(1), T("RParen"),
      T("LBrace"), T("RBrace"),
      T("Return"), T("LParen"), TIdent("i"), T("Minus"), TNumber(1), T("RParen"), T("Star"),
      TNumber(2), T("Slash"), TNumber(3), T("Neq"), T("True"), T("Eq"), T("False"), Semi>>

\* fn f() { return g(1, 2); } x; 1 + f();
SrcCalls ==
    <<T("Fn"), TIdent("f"), T("LParen"), T("RParen"), T("LBrace"),
      T("Return"), TIdent("g"), T("LParen"), TNumber(1), T("Comma"), TNumber(2), T("RParen"),
      Semi, T("RBrace"),
      TIdent("x"), Semi, TNumber(1), T("Plus"), TIdent("f"), T("LParen"), T("RParen"), Semi>>

\* sources that break off or go wrong at each place a token is required
SrcBroken ==
    { <<T("Let"), TNumber(1)>>, <<T("Let"), TIdent("x"), T("Eq"), TNumber(1), Semi>>,
      <<T("If"), TIdent("x")>>, <<T("If"), T("LParen"), TIdent("x"), T("RParen"), Semi>>,
      <<T("While"), T("LParen"), T("True"), T("RParen"), T("LBrace"), TIdent("x"), Semi>>,
      <<T("Do"), T("LBrace"), T("RBrace"), T("While"), T("LParen"), T("True"), T("RParen")>>,
      <<T("For"), T("LParen"), T("Let")>>, <<T("Fn"), T("LParen")>>,
      <<T("Fn"), TIdent("f"), T("LParen"), TIdent("a"), T("Comma"), T("RParen")>>,
      <<TIdent("x"), T("Plus"), TNumber(1), Semi>>,
      <<T("Do"), T("LBrace"), TIdent("x"), Semi, TIdent("x"), T("Star"), TNumber(2), Semi>>,
      <<TIdent("f"), T("LParen"), TNumber(1), T("RParen"), Semi>>,
      <<TNumber(1), T("Plus"), TIdent("f"), T("LParen"), TNumber(1), T("Comma"), Semi>>,
      <<T("Return"), T("Colon"), Semi>>, <<T("Else")>> }

ExprAlphabet == {TNumber(2), TNumber(3), T("Minus"), T("Star"), T("Lt"), T("Eq")}
ExprSources == {Append(q, Semi) : q \in SeqsUpTo(ExprAlphabet, MaxExprLen)}

Sources == {<<>>, SrcArithmetic, SrcNoSemicolon, SrcSample, SrcFor, SrcCalls}
           \cup SrcBroken \cup ExprSources

(***************************************************************************)
(* The pipeline: Parser::new, parse_program, then interpret on its AST.    *)
(***************************************************************************)
ParseInit ==
    /\ tokens \in Sources
    /\ pos = 0
    /\ stmts = <<>>
    /\ presult = PResult("Running", NoError)
    /\ plog = <<>>
    /\ program = <<>>
    /\ InterpreterNew
    /\ result = Idle
    /\ LexerIdle
    /\ CheckerIdle

\* `self.parse_stmt()?` of parse_program has come back with r
ParseProgramAfterStmt(r) ==
    /\ pos' = r.ps.pos
    /\ plog' = r.ps.plog
    /\ IF Failed(r.ps)
       THEN stmts' = <<>> /\ presult' = PResult("Err", r.ps.err)
       ELSE stmts' = Append(stmts, r.val) /\ presult' = presult

\* one iteration of `while self.peek().is_some() { stmts.push(self.parse_stmt()?); }`
ParseProgramStep ==
    /\ presult.kind = "Running"
    /\ pos < Len(tokens)
    /\ ParseProgramAfterStmt(ParseStmt(tokens, [pos |-> pos, err |-> NoError, plog |-> plog]))
    /\ UNCHANGED <<tokens, program, ip, env, functions, result, log, lexVars, tcVars>>

\* peek is None: Ok(stmts)
ParseProgramOk ==
    /\ presult.kind = "Running"
    /\ pos >= Len(tokens)
    /\ presult' = PResult("Ok", NoError)
    /\ program' = stmts
    /\ UNCHANGED <<tokens, pos, stmts, plog, ip, env, functions, result, log, lexVars, tcVars>>

\* Interpreter::new().interpret(&ast) is entered
InterpretParsed ==
    /\ presult.kind = "Ok"
    /\ result = Idle
    /\ result' = Running
    /\ UNCHANGED <<tokens, pos, stmts, presult, plog, program, ip, env, functions, log, lexVars, tcVars>>

ParseNext == ParseProgramStep \/ ParseProgramOk \/ InterpretParsed \/ InterpretStmt \/ InterpretOk

ParseSpec == ParseInit /\ [][ParseNext]_vars

(***************************************************************************)
(* Lexer (src/src/lexer.rs).  A char is a one-character string, a String   *)
(* or Vec<char> a sequence of them.  An i64 is its two's complement bit    *)
(* pattern in four 16-bit limbs, least significant first, so that          *)
(* `num * 10 + d` is computed to the width the code computes it to.        *)
(***************************************************************************)
Range(f) == {f[k] : k \in DOMAIN f}

MaxInputLen == 3    \* longest generated input, in chars

Limb == 65536
Zero64 == <<0, 0, 0, 0>>
DigitChars == <<"0", "1", "2", "3", "4", "5", "6", "7", "8", "9">>
Letters == {"a", "b", "c", "d", "e", "f", "g", "h", "i", "j", "k", "l", "m", "n", "o", "p", "q", "r", "s", "t", "u", "v", "w", "x", "y", "z",
            "A", "B", "C", "D", "E", "F", "G", "H", "I", "J", "K", "L", "M", "N", "O", "P", "Q", "R", "S", "T", "U", "V", "W", "X", "Y", "Z"}
Whitespace == {" ", "\n", "\t", "\r"}

\* c.to_digit(10): the digit's value, -1 for None
ToDigit(c) ==
    IF \E k \in DOMAIN DigitChars : DigitChars[k] = c
    THEN (CHOOSE k \in DOMAIN DigitChars : DigitChars[k] = c) - 1
    ELSE -1

\* c.is_alphanumeric() || c == '_', over the ASCII chars the inputs are made of
IsWordChar(c) == c \in Letters \/ ToDigit(c) >= 0 \/ c = "_"

\* limb k of num * 10 + d before it is cut to 16 bits: what is above the cut
\* is carried into limb k + 1 (k = 0 carries d in)
RECURSIVE MulAddLimb(_, _, _)
MulAddLimb(num, d, k) ==
    IF k = 0 THEN d * Limb ELSE num[k] * 10 + MulAddLimb(num, d, k - 1) \div Limb

\* num * 10 + d as a build without overflow checks computes it: modulo 2^64
WrappingMulAdd(num, d) ==
    <<MulAddLimb(num, d, 1) % Limb, MulAddLimb(num, d, 2) % Limb,
      MulAddLimb(num, d, 3) % Limb, MulAddLimb(num, d, 4) % Limb>>

\* num * 10 + d exceeds i64::MAX (num >= 0): bit 63 or a carry out of it is set
Overflows(num, d) == MulAddLimb(num, d, 4) >= Limb \div 2

\* the `while let` of tokenize_number from position p with `num` accumulated
RECURSIVE TokenizeNumber(_, _, _, _)
TokenizeNumber(chars, p, num, checks) ==
    IF p < Len(chars) /\ ToDigit(chars[p + 1]) >= 0
    THEN IF checks /\ Overflows(num, ToDigit(chars[p + 1]))
         THEN [pos |-> p, kind |-> "Panic", num |-> num]
         ELSE TokenizeNumber(chars, p + 1, WrappingMulAdd(num, ToDigit(chars[p + 1])), checks)
    ELSE [pos |-> p, kind |-> "Ok", num |-> num]

\* `match ident.as_str()` of tokenize_ident_or_keyword
KeywordOrIdent(ident) ==
    CASE ident = <<"l", "e", "t">> -> T("Let")
      [] ident = <<"f", "n">> -> T("Fn")
      [] ident = <<"i", "f">> -> T("If")
      [] ident = <<"e", "l", "s", "e">> -> T("Else")
      [] ident = <<"w", "h", "i", "l", "e">> -> T("While")
      [] ident = <<"d", "o">> -> T("Do")
      [] ident = <<"f", "o", "r">> -> T("For")
      [] ident = <<"r", "e", "t", "u", "r", "n">> -> T("Return")
      [] ident = <<"t", "r", "u", "e">> -> T("True")
      [] ident = <<"f", "a", "l", "s", "e">> -> T("False")
      [] OTHER -> TIdent(ident)

\* the `while let` of tokenize_ident_or_keyword from position p with `ident` pushed
RECURSIVE TokenizeIdentOrKeyword(_, _, _)
TokenizeIdentOrKeyword(chars, p, ident) ==
    IF p < Len(chars) /\ IsWordChar(chars[p + 1])
    THEN TokenizeIdentOrKeyword(chars, p + 1, Append(ident, chars[p + 1]))
    ELSE [pos |-> p, tok |-> KeywordOrIdent(ident)]

\* the arms of tokenize that advance once and push one token
PunctChars == {"+", "-", "*", "/", ">", "<", "(", ")", "{", "}", ";", ",", ":"}
PunctToken(c) ==
    CASE c = "+" -> T("Plus")
      [] c = "-" -> T("Minus")
      [] c = "*" -> T("Star")
      [] c = "/" -> T("Slash")
      [] c = ">" -> T("Gt")
      [] c = "<" -> T("Lt")
      [] c = "(" -> T("LParen")
      [] c = ")" -> T("RParen")
      [] c = "{" -> T("LBrace")
      [] c = "}" -> T("RBrace")
      [] c = ";" -> T("Semicolon")
      [] c = "," -> T("Comma")
      [] c = ":" -> T("Colon")

\* Lexer::match_char at position p; the result is whether it advanced
MatchChar(chars, p, expected) == p < Len(chars) /\ chars[p + 1] = expected

(***************************************************************************)
(* Lexer::new and Lexer::tokenize: one action per arm of the `match c`,    *)
(* each one pass of `while let Some(&c) = self.peek()`.                    *)
(***************************************************************************)
\* let x1 = 007;
InLet == <<"l", "e", "t", " ", "x", "1", " ", "=", " ", "0", "0", "7", ";">>
\* the largest i64 and the number after it
InMax == <<"9", "2", "2", "3", "3", "7", "2", "0", "3", "6", "8", "5", "4", "7", "7", "5", "8", "0", "7">>
InOver == <<"9", "2", "2", "3", "3", "7", "2", "0", "3", "6", "8", "5", "4", "7", "7", "5", "8", "0", "8">>
\* a run of twenty digits
InLong == <<"1", "8", "4", "4", "6", "7", "4", "4", "0", "7", "3", "7", "0", "9", "5", "5", "1", "6", "2", "1">>
\* return_ if(a!=b){_c=d==1;}
InWords == <<"r", "e", "t", "u", "r", "n", "_", " ", "i", "f", "(", "a", "!", "=", "b", ")", "{", "_", "c", "=", "d", "=", "=", "1", ";", "}">>
InBang == <<"a", " ", "!", " ", "b">>
InAt == <<"x", " ", "@">>

LexAlphabet == {"7", "0", "a", "_", " ", "="}
Inputs == {InLet, InMax, InOver, InLong, InWords, InBang, InAt}
          \cup SeqsUpTo(LexAlphabet, MaxInputLen)

parserVars == <<tokens, pos, stmts, presult, plog>>
interpVars == <<program, ip, env, functions, result, log>>

LexInit ==
    /\ input \in Inputs
    /\ overflow_checks \in BOOLEAN
    /\ lpos = 0
    /\ ltokens = <<>>
    /\ lresult = Running
    /\ runs = <<>>
    /\ ParserIdle
    /\ program = <<>>
    /\ InterpreterNew
    /\ result = Idle
    /\ CheckerIdle

\* `while let Some(&c) = self.peek()` has found the char c
Peeked(C) == lresult = Running /\ lpos < Len(input) /\ input[lpos + 1] \in C
LexFrame == UNCHANGED <<input, overflow_checks, parserVars, interpVars, tcVars>>
Run(kind, to, tok) == [kind |-> kind, from |-> lpos, to |-> to, tok |-> tok]

\* ' ' | '\n' | '\t' | '\r'
LexSkip ==
    /\ Peeked(Whitespace)
    /\ lpos' = lpos + 1
    /\ UNCHANGED <<ltokens, lresult, runs>>
    /\ LexFrame

\* tokenize_number has come back with r, or has panicked
LexAfterNumber(r) ==
    /\ lpos' = r.pos
    /\ IF r.kind = "Panic"
       THEN /\ lresult' = Returned("Panic", <<"attempt to multiply with overflow">>)
            /\ UNCHANGED <<ltokens, runs>>
       ELSE /\ ltokens' = Append(ltokens, TNumber(r.num))
            /\ runs' = Append(runs, Run("number", r.pos, TNumber(r.num)))
            /\ lresult' = lresult

\* '0'..='9' => tokens.push(self.tokenize_number()?)
LexNumber ==
    /\ Peeked(Range(DigitChars))
    /\ LexAfterNumber(TokenizeNumber(input, lpos, Zero64, overflow_checks))
    /\ LexFrame

\* tokenize_ident_or_keyword has come back with r
LexAfterWord(r) ==
    /\ lpos' = r.pos
    /\ ltokens' = Append(ltokens, r.tok)
    /\ runs' = Append(runs, Run("word", r.pos, r.tok))
    /\ lresult' = lresult

\* 'a'..='z' | 'A'..='Z' | '_' => tokens.push(self.tokenize_ident_or_keyword()?)
LexWord ==
    /\ Peeked(Letters \cup {"_"})
    /\ LexAfterWord(TokenizeIdentOrKeyword(input, lpos, <<>>))
    /\ LexFrame

\* '+', '-', '*', '/', '>', '<', '(', ')', '{', '}', ';', ',', ':'
LexPunct ==
    /\ Peeked(PunctChars)
    /\ lpos' = lpos + 1
    /\ ltokens' = Append(ltokens, PunctToken(input[lpos + 1]))
    /\ UNCHANGED <<lresult, runs>>
    /\ LexFrame

\* '=' => Eq if another '=' follows, Equal otherwise
LexEqual ==
    /\ Peeked({"="})
    /\ IF MatchChar(input, lpos + 1, "=")
       THEN lpos' = lpos + 2 /\ ltokens' = Append(ltokens, T("Eq"))
       ELSE lpos' = lpos + 1 /\ ltokens' = Append(ltokens, T("Equal"))
    /\ UNCHANGED <<lresult, runs>>
    /\ LexFrame

\* '!' => Neq if '=' follows, a SyntaxError otherwise
LexBang ==
    /\ Peeked({"!"})
    /\ IF MatchChar(input, lpos + 1, "=")
       THEN /\ lpos' = lpos + 2
            /\ ltokens' = Append(ltokens, T("Neq"))
            /\ lresult' = lresult
       ELSE /\ lpos' = lpos + 1
            /\ ltokens' = ltokens
            /\ lresult' = Returned("Err", <<"Unexpected character after '!'">>)
    /\ UNCHANGED runs
    /\ LexFrame

\* _ => Err(SyntaxError("Unexpected character: {}"))
LexUnexpected ==
    /\ lresult = Running
    /\ lpos < Len(input)
    /\ input[lpos + 1] \notin Whitespace \cup Range(DigitChars) \cup Letters
                              \cup PunctChars \cup {"_", "=", "!"}
    /\ lresult' = Returned("Err", <<"Unexpected character: {}", input[lpos + 1]>>)
    /\ UNCHANGED <<lpos, ltokens, runs>>
    /\ LexFrame

\* peek is None: Ok(tokens)
LexOk ==
    /\ lresult = Running
    /\ lpos >= Len(input)
    /\ lresult' = Returned("Ok", <<>>)
    /\ UNCHANGED <<lpos, ltokens, runs>>
    /\ LexFrame

LexNext ==
    LexSkip \/ LexNumber \/ LexWord \/ LexPunct \/ LexEqual \/ LexBang \/ LexUnexpected \/ LexOk

LexSpec == LexInit /\ [][LexNext]_vars

(***************************************************************************)
(* TypeChecker (src/src/type_checker.rs).  `tc` is the receiver:           *)
(* [env, functions] plus the log.  check_expr changes nothing of it, so    *)
(* its result is the Result alone: Ok(t) or Err(msg).                      *)
(***************************************************************************)
TOk(t) == [kind |-> "Ok", t |-> t, msg |-> <<>>]
TErr(msg) == [kind |-> "Err", t |-> "Void", msg |-> msg]
UndeclaredMsg(name) == <<"Undeclared variable: {}", name>>
MismatchMsg(name) == <<"Type mismatch in assignment to {}", name>>

TEv(ev, s, tc, msg) == [ev |-> ev, s |-> s, env |-> tc.env, fns |-> tc.functions, msg |-> msg]
TEmit(tc, ev, s) == [tc EXCEPT !.tlog = Append(@, TEv(ev, s, tc, <<>>))]

\* check_stmt is entered
Entered(tc, s) == TEmit(tc, "exec", s)
\* check_stmt returns Ok(())
Passed(tc, s) == [tc |-> TEmit(tc, "done", s), kind |-> "Ok", msg |-> <<>>]
\* check_stmt returns Err(CompilerError::TypeError(msg))
Raised(tc, s, msg) ==
    [tc |-> [tc EXCEPT !.tlog = Append(@, TEv("err", s, tc, msg))], kind |-> "Err", msg |-> msg]

\* self.env.insert(name, t)
TBind(tc, name, t) == [tc EXCEPT !.env = MapInsert(@, name, t)]

RECURSIVE CheckExpr(_, _)
RECURSIVE CheckArgs(_, _, _, _)
RECURSIVE CheckStmt(_, _)
RECURSIVE CheckBlock(_, _, _)

\* Binary: `match op` once lhs and rhs are typed (lt is looked at first)
CheckBinary(lt, rt, op) ==
    IF lt.kind = "Err" THEN lt
    ELSE IF rt.kind = "Err" THEN rt
    ELSE IF op \in {"Add", "Sub", "Mul", "Div"}
         THEN IF lt.t = "Int" /\ rt.t = "Int" THEN TOk("Int")
              ELSE TErr(<<"Operands must be integers">>)
         ELSE IF lt.t = rt.t THEN TOk("Bool")
              ELSE TErr(<<"Operands must be of the same type">>)

\* the argument loop: after `let arg_type = self.check_expr(arg)?;`
CheckArgsAfterArg(a, tc, args, sig, i) ==
    IF a.kind = "Err" THEN a
    ELSE IF a.t # sig.params[i] THEN TErr(<<"Argument type mismatch">>)
    ELSE CheckArgs(tc, args, sig, i + 1)

\* `for (arg, expected) in args.iter().zip(param_types)`, then Ok(return_type)
CheckArgs(tc, args, sig, i) ==
    IF i > Len(args) THEN TOk(sig.ret)
    ELSE CheckArgsAfterArg(CheckExpr(tc, args[i]), tc, args, sig, i)

CheckExpr(tc, e) ==
    CASE e.kind = "Number" -> TOk("Int")
      [] e.kind = "Bool" -> TOk("Bool")
      [] e.kind = "Variable" ->
            IF e.name \in DOMAIN tc.env THEN TOk(tc.env[e.name])
            ELSE TErr(UndeclaredMsg(e.name))
      [] e.kind = "Binary" -> CheckBinary(CheckExpr(tc, e.lhs), CheckExpr(tc, e.rhs), e.op)
      [] e.kind = "Call" ->
            IF e.name \notin DOMAIN tc.functions
            THEN TErr(<<"Undefined function: {}", e.name>>)
            ELSE IF Len(e.args) # Len(tc.functions[e.name].params)
            THEN TErr(<<"Incorrect number of arguments in call to {}", e.name>>)
            ELSE CheckArgs(tc, e.args, tc.functions[e.name], 1)

\* `for stmt in block { self.check_stmt(stmt)?; }`: after one check_stmt
CheckBlockAfterStmt(r, block, i) ==
    IF r.kind = "Err" THEN r ELSE CheckBlock(r.tc, block, i + 1)

CheckBlock(tc, block, i) ==
    IF i > Len(block) THEN [tc |-> tc, kind |-> "Ok", msg |-> <<>>]
    ELSE CheckBlockAfterStmt(CheckStmt(tc, block[i]), block, i)

\* the last block of a statement has been checked (r): Ok(()) unless it failed
CheckAfterBlock(r, s) == IF r.kind = "Err" THEN r ELSE Passed(r.tc, s)

\* Let: after `let t = self.check_expr(expr)?;`
CheckLet(tc, s, t) ==
    IF t.kind = "Err" THEN Raised(tc, s, t.msg) ELSE Passed(TBind(tc, s.name, t.t), s)

\* CheckAssign that rebinds the name as Let does
CheckAssign_Rebinds(tc, s, t) == CheckLet(tc, s, t)

\* Assign: after `let t = self.check_expr(expr)?;`
CheckAssign(tc, s, t) ==
    IF t.kind = "Err" THEN Raised(tc, s, t.msg)
    ELSE IF s.name \notin DOMAIN tc.env THEN Raised(tc, s, UndeclaredMsg(s.name))
    ELSE IF tc.env[s.name] # t.t THEN Raised(tc, s, MismatchMsg(s.name))
    ELSE Passed(tc, s)

\* If: the then_block has been checked (r)
CheckIfAfterThen(r, s) ==
    IF r.kind = "Err" THEN r ELSE CheckAfterBlock(CheckBlock(r.tc, s.else_block, 1), s)

\* If: after `let cond_type = self.check_expr(cond)?;`
CheckIf(tc, s, c) ==
    IF c.kind = "Err" THEN Raised(tc, s, c.msg)
    ELSE IF c.t # "Bool" THEN Raised(tc, s, <<"Condition in 'if' must be a boolean">>)
    ELSE CheckIfAfterThen(CheckBlock(tc, s.then_block, 1), s)

\* While | DoWhile: after `let cond_type = self.check_expr(cond)?;`
CheckLoop(tc, s, c) ==
    IF c.kind = "Err" THEN Raised(tc, s, c.msg)
    ELSE IF c.t # "Bool" THEN Raised(tc, s, <<"Condition in loop must be a boolean">>)
    ELSE CheckAfterBlock(CheckBlock(tc, s.body, 1), s)

\* ForHeaderEnv with the loop variable registered before the header is typed
ForHeaderEnv_Registered(tc, var) == TBind(tc, var, "Int")

\* the receiver start, cond and step of For are typed with: self as it is on
\* entry, the insert of var comes after the three check_expr
ForHeaderEnv(tc, var) == tc

\* For: after t_start, t_cond and t_step
CheckFor(tc, s, t_start, t_cond, t_step) ==
    IF t_start.kind = "Err" THEN Raised(tc, s, t_start.msg)
    ELSE IF t_cond.kind = "Err" THEN Raised(tc, s, t_cond.msg)
    ELSE IF t_step.kind = "Err" THEN Raised(tc, s, t_step.msg)
    ELSE IF t_start.t # "Int" \/ t_cond.t # "Bool" \/ t_step.t # "Int"
         THEN Raised(tc, s, <<"Invalid types in 'for' loop">>)
    ELSE CheckAfterBlock(CheckBlock(TEmit(TBind(tc, s.var, "Int"), "bind", s), s.body, 1), s)

\* Signature with the return type left open
Signature_Void(params) == [params |-> [k \in DOMAIN params |-> "Int"], ret |-> "Void"]

\* (vec![Type::Int; params.len()], Type::Int)
Signature(params) == [params |-> [k \in DOMAIN params |-> "Int"], ret |-> "Int"]

\* `for (i, param) in params.iter().enumerate() { self.env.insert(param, Int) }`
RECURSIVE BindParams(_, _, _)
BindParams(tc, params, i) ==
    IF i > Len(params) THEN tc ELSE BindParams(TBind(tc, params[i], "Int"), params, i + 1)

\* FnDecl: the signature is inserted, the parameters are bound, then the body
CheckFnDecl(tc, s) ==
    CheckAfterBlock(
        CheckBlock(TEmit(BindParams([tc EXCEPT !.functions =
                                         MapInsert(@, s.name, Signature(s.params))],
                                    s.params, 1),
                         "decl", s),
                   s.body, 1),
        s)

\* Return | Expr: `self.check_expr(expr)?;`
CheckExprOnly(tc, s, t) == IF t.kind = "Err" THEN Raised(tc, s, t.msg) ELSE Passed(tc, s)

\* `match stmt` of check_stmt; tc has entered s
CheckStmtMatch(tc, s) ==
    CASE s.kind = "Let" -> CheckLet(tc, s, CheckExpr(tc, s.expr))
      [] s.kind = "Assign" -> CheckAssign(tc, s, CheckExpr(tc, s.expr))
      [] s.kind = "If" -> CheckIf(tc, s, CheckExpr(tc, s.cond))
      [] s.kind \in {"While", "DoWhile"} -> CheckLoop(tc, s, CheckExpr(tc, s.cond))
      [] s.kind = "For" ->
            CheckFor(tc, s, CheckExpr(ForHeaderEnv(tc, s.var), s.start),
                     CheckExpr(ForHeaderEnv(tc, s.var), s.cond),
                     CheckExpr(ForHeaderEnv(tc, s.var), s.step))
      [] s.kind = "FnDecl" -> CheckFnDecl(tc, s)
      [] s.kind \in {"Return", "Expr"} -> CheckExprOnly(tc, s, CheckExpr(tc, s.expr))

CheckStmt(tc, s) == CheckStmtMatch(Entered(tc, s), s)

(***************************************************************************)
(* Programs the type checker is run on.  Variables x, b, i, r, d, z, q;    *)
(* functions f (FnRec), h, add.                                            *)
(***************************************************************************)
\* fn h(a) { return true; }
FnBool == FnDecl("h", <<"a">>, <<Return(Bool(TRUE))>>)
\* fn f(n) { return f(true); }
FnBadBody == FnDecl("f", <<"n">>, <<Return(Call("f", <<Bool(TRUE)>>))>>)
\* do { let d = 9; } while (d > 5);
DoDeclares == DoWhile(<<Let("d", N(9))>>, Binary(V("d"), "Gt", N(5)))
\* for (i = true; i < 5; i = i + 1) { }
ForBoolStart == For("i", Bool(TRUE), Binary(V("i"), "Lt", N(5)), Plus1("i"), <<>>)
\* for (i = 0; i < 2; i = i + 1) { x = i; }
ForUses == For("i", N(0), Binary(V("i"), "Lt", N(2)), Plus1("i"), <<Assign("x", V("i"))>>)

TypePool ==
    { Let("x", N(5)), Let("x", Bool(TRUE)), Let("i", N(0)),
      Let("b", Binary(V("x"), "Lt", N(3))),
      Assign("x", Bool(TRUE)), Assign("x", Plus1("x")), Assign("z", N(1)),
      Assign("x", V("q")),
      If(V("b"), <<Assign("x", N(1))>>, <<Assign("x", Bool(FALSE))>>),
      If(V("x"), <<>>, <<>>),
      While(Binary(V("x"), "Lt", N(7)), <<Assign("x", Plus1("x"))>>),
      DoDeclares, ForFive, ForBoolStart, ForUses,
      FnRec, FnBool, FnAdd, FnBadBody,
      Let("r", Call("f", <<N(2)>>)), Let("r", Call("h", <<N(1)>>)),
      ExprStmt(Call("f", <<Bool(TRUE)>>)), ExprStmt(Call("f", <<>>)),
      ExprStmt(Call("f", <<V("q")>>)),
      Return(Call("add", <<N(1), V("x")>>)) }

\* let x = 5; x = true;
RetypeProgram == <<Let("x", N(5)), Assign("x", Bool(TRUE))>>

TypePrograms == SeqsUpTo(TypePool, MaxProgLen) \cup {RetypeProgram, SampleProgram}

(***************************************************************************)
(* TypeChecker::check_program, and Interpreter::interpret on the program   *)
(* the checker was given.                                                  *)
(***************************************************************************)
TypeInit ==
    /\ program \in TypePrograms
    /\ TypeCheckerNew
    /\ tresult = Running
    /\ ParserIdle
    /\ InterpreterNew
    /\ result = Idle
    /\ LexerIdle

TSelf == [env |-> tenv, functions |-> tfunctions, tlog |-> tlog]

\* `self.check_stmt(stmt)?` of check_program has come back with r
CheckProgramAfterStmt(r) ==
    /\ tenv' = r.tc.env
    /\ tfunctions' = r.tc.functions
    /\ tlog' = r.tc.tlog
    /\ IF r.kind = "Ok"
       THEN tip' = tip + 1 /\ tresult' = tresult
       ELSE tip' = tip /\ tresult' = Returned("Err", r.msg)

\* one iteration of `for stmt in program { self.check_stmt(stmt)?; }`
CheckProgramStep ==
    /\ tresult = Running
    /\ tip < Len(program)
    /\ CheckProgramAfterStmt(CheckStmt(TSelf, program[tip + 1]))
    /\ UNCHANGED <<parserVars, interpVars, lexVars>>

\* the loop of check_program is over: Ok(())
CheckProgramOk ==
    /\ tresult = Running
    /\ tip = Len(program)
    /\ tresult' = Returned("Ok", <<>>)
    /\ UNCHANGED <<tip, tenv, tfunctions, tlog, parserVars, interpVars, lexVars>>

\* Interpreter::new().interpret(program) is entered on the checked program
InterpretChecked ==
    /\ tresult # Running
    /\ result = Idle
    /\ result' = Running
    /\ UNCHANGED <<program, ip, env, functions, log, parserVars, lexVars, tcVars>>

TypeNext ==
    CheckProgramStep \/ CheckProgramOk \/ InterpretChecked \/ InterpretStmt \/ InterpretOk

TypeSpec == TypeInit /\ [][TypeNext]_vars

(***************************************************************************)
(* Reading the interpreter's log.                                          *)
(***************************************************************************)
Max(S) == CHOOSE m \in S : \A k \in S : k <= m
Idx == 1..Len(log)

\* the events one statement s emits about itself in the frame of depth d
LoopEvs == {"exec", "start", "cond", "body", "bodyend", "step", "exit"}
Earlier(i) ==
    {k \in 1..(i - 1) : log[k].s = log[i].s /\ log[k].d = log[i].d /\ log[k].ev \in LoopEvs}
PrevEv(i) == IF Earlier(i) = {} THEN Ev("none", 0, NoNode, 0) ELSE log[Max(Earlier(i))]
IsEv(i, ev, kind) == log[i].ev = ev /\ log[i].s.kind = kind
NextIs(i, ev) == i < Len(log) /\ log[i + 1].ev = ev /\ log[i + 1].d = log[i].d

\* the "call" a "callend" at j answers: the last one of the same depth
CallOf(j) == Max({i \in 1..(j - 1) : log[i].ev = "call" /\ log[i].d = log[j].d})

\* the frame that logged event j is still alive at event i
FrameOpen(j, i) ==
    \A k \in (j + 1)..(i - 1) : ~(log[k].ev = "callend" /\ log[k].d = log[j].d - 1)

(***************************************************************************)
(* C1: when a Return executes anywhere in a function body, nested or not,  *)
(* the body stops there and the call evaluates to the Return's value: the  *)
(* next thing that happens is the end of the enclosing call with that      *)
(* value.                                                                  *)
(***************************************************************************)
C1_ReturnEndsCall ==
    \A i \in Idx :
        (log[i].ev = "return" /\ log[i].d > 0)
            => /\ i < Len(log)
               /\ log[i + 1].ev = "callend"
               /\ log[i + 1].d = log[i].d - 1
               /\ log[i + 1].v = log[i].v

(***************************************************************************)
(* C2: interpretation is fail-fast: a RuntimeError raised by any           *)
(* statement, at top level or in a called function's body, is the last     *)
(* thing that happens and is what interpret returns.                       *)
(***************************************************************************)
C2_FailFast ==
    \A i \in Idx :
        log[i].ev = "err" => (i = Len(log) /\ result = Returned("Err", log[i].msg))

(***************************************************************************)
(* C3: a Div whose right operand is 0 ends in a RuntimeError returned by   *)
(* interpret, never in a trap.                                             *)
(***************************************************************************)
C3_DivZeroIsRuntimeError ==
    /\ result.kind # "Panic"
    /\ \A i \in Idx : log[i].ev = "divzero" => result.kind = "Err"

(***************************************************************************)
(* C4: call isolation: the caller's environment and function table are the *)
(* same after a call as before it, whatever the callee did; the spec's     *)
(* example ends with y = 11 and x = 10.                                    *)
(***************************************************************************)
C4_CallIsolation ==
    /\ \A j \in Idx :
          log[j].ev = "callend"
              => /\ log[j].env = log[CallOf(j)].env
                 /\ log[j].fns = log[CallOf(j)].fns
    /\ (program = IsolationProgram /\ ip = 3)
          => env = [n \in {"x", "y"} |-> IF n = "x" THEN 10 ELSE 11]

\* the callee of the example has rebound the caller's x in its own copy
C4_Witness ==
    /\ program = IsolationProgram
    /\ result.kind = "Ok"
    /\ \E i \in Idx : log[i].ev = "return" /\ log[i].d = 1 /\ log[i].v = 11
    /\ \E j \in Idx : log[j].ev = "callend" /\ log[j].env = [n \in {"x"} |-> 10]

(***************************************************************************)
(* C5: the function table holds exactly what executed FnDecl statements    *)
(* put there: a Call finds f iff a FnDecl for f was executed earlier by    *)
(* this interpreter or one it was copied from; otherwise it fails with the *)
(* undefined-function RuntimeError, a later FnDecl notwithstanding.        *)
(***************************************************************************)
C5_DeclaredBeforeCall ==
    \A i \in Idx :
        log[i].ev = "lookup"
            => /\ (log[i].v = 1) <=>
                      \E j \in 1..(i - 1) : /\ log[j].ev = "fndecl"
                                            /\ log[j].name = log[i].name
                                            /\ log[j].d <= log[i].d
                                            /\ FrameOpen(j, i)
               /\ (log[i].v = 0) =>
                      /\ NextIs(i, "err")
                      /\ log[i + 1].msg = UndefinedFunctionMsg(log[i].name)

\* a call that failed although the FnDecl follows it in the same body, and
\* the same call succeeding once the FnDecl has executed
C5_Witness ==
    /\ program = SwallowProgram
    /\ \E i, j \in Idx :
          /\ i < j
          /\ log[i].ev = "lookup" /\ log[i].name = "f" /\ log[i].v = 0
          /\ log[j].ev = "lookup" /\ log[j].name = "f" /\ log[j].v = 1
          /\ \E k \in (i + 1)..(j - 1) : log[k].ev = "fndecl" /\ log[k].name = "f"

(***************************************************************************)
(* C6: For evaluates start once and binds var, then repeats: test cond, if *)
(* it holds run the body and rebind var to a fresh evaluation of step.     *)
(* After the loop var keeps the last value bound; the spec's example       *)
(* leaves i = 5.                                                           *)
(***************************************************************************)
C6_ForOrder ==
    \A i \in Idx :
        log[i].s.kind = "For" =>
            /\ log[i].ev = "start" => PrevEv(i).ev = "exec"
            /\ log[i].ev \in {"start", "step"} => log[i].env[log[i].s.var] = log[i].v
            /\ log[i].ev = "cond" => PrevEv(i).ev \in {"start", "step"}
            /\ log[i].ev = "cond" => NextIs(i, IF log[i].v # 0 THEN "body" ELSE "exit")
            /\ log[i].ev = "body" => (PrevEv(i).ev = "cond" /\ PrevEv(i).v # 0)
            /\ (log[i].ev = "body" /\ log[i].s.body # <<>>)
                   => (NextIs(i, "exec") /\ log[i + 1].s = log[i].s.body[1])
            /\ log[i].ev = "bodyend" => PrevEv(i).ev = "body"
            /\ log[i].ev = "step" => PrevEv(i).ev = "bodyend"
            /\ log[i].ev = "exit" =>
                   /\ PrevEv(i).ev = "cond" /\ PrevEv(i).v = 0
                   /\ PrevEv(Max(Earlier(i))).ev \in {"start", "step"}
                   /\ log[i].s.var \in DOMAIN log[i].env
                   /\ log[i].env[log[i].s.var] = PrevEv(Max(Earlier(i))).v

C6_ForSemantics ==
    /\ C6_ForOrder
    /\ \A i \in Idx : (log[i].ev = "exit" /\ log[i].s = ForFive) => log[i].env["i"] = 5
    /\ (program = <<ForFive>> /\ ip = 1) => env = [n \in {"i"} |-> 5]

\* the example has run: five rounds of body and step, and i is 5 after the loop
C6_Witness ==
    /\ program = <<ForFive>>
    /\ result.kind = "Ok"
    /\ env["i"] = 5
    /\ Cardinality({i \in Idx : log[i].ev = "step"}) = 5

(***************************************************************************)
(* C7: DoWhile runs its body before cond is ever evaluated, evaluates cond *)
(* only after a complete body, and stops the first time cond is 0; with    *)
(* y = 10 the spec's example runs the body once and leaves y = 9.          *)
(***************************************************************************)
C7_DoWhileOrder ==
    \A i \in Idx :
        log[i].s.kind = "DoWhile" =>
            /\ log[i].ev = "exec" => NextIs(i, "body")
            /\ log[i].ev = "body" =>
                   \/ PrevEv(i).ev = "exec"
                   \/ PrevEv(i).ev = "cond" /\ PrevEv(i).v # 0
            /\ (log[i].ev = "body" /\ log[i].s.body # <<>>)
                   => (NextIs(i, "exec") /\ log[i + 1].s = log[i].s.body[1])
            /\ log[i].ev = "bodyend" => PrevEv(i).ev = "body"
            /\ log[i].ev = "cond" => PrevEv(i).ev = "bodyend"
            /\ log[i].ev = "cond" => NextIs(i, IF log[i].v = 0 THEN "exit" ELSE "body")
            /\ log[i].ev = "exit" => (PrevEv(i).ev = "cond" /\ PrevEv(i).v = 0)

C7_DoWhileSemantics ==
    /\ C7_DoWhileOrder
    /\ (program = <<Let("y", N(10)), DoOnce>> /\ ip = 2)
          => /\ env["y"] = 9
             /\ Cardinality({i \in Idx : log[i].ev = "body"}) = 1

\* the example has run although y > 100 was false from the start
C7_Witness ==
    /\ program = <<Let("y", N(10)), DoOnce>>
    /\ result.kind = "Ok"
    /\ env["y"] = 9
    /\ \E i \in Idx : IsEv(i, "cond", "DoWhile") /\ log[i].v = 0

(***************************************************************************)
(* C8: each of the four runtime failures produces a RuntimeError whose     *)
(* message contains the offending name.                                    *)
(***************************************************************************)
C8_ErrorsNameOffender ==
    \A i \in Idx : log[i].ev = "err" => log[i].name \in Range(log[i].msg)

(***************************************************************************)
(* Reading an AST back as tokens.  A source without parentheses and        *)
(* without the literal 0 has one token per leaf and per operator, and a    *)
(* Binary(Number(0), Sub, e) in its tree can only be a unary minus.        *)
(***************************************************************************)
Tier(op) ==
    CASE op \in {"Eq", "Neq"} -> 1
      [] op \in {"Gt", "Lt"} -> 2
      [] op \in {"Add", "Sub"} -> 3
      [] op \in {"Mul", "Div"} -> 4
OpToken(op) ==
    CASE op = "Eq" -> T("Eq") [] op = "Neq" -> T("Neq") [] op = "Gt" -> T("Gt")
      [] op = "Lt" -> T("Lt") [] op = "Add" -> T("Plus") [] op = "Sub" -> T("Minus")
      [] op = "Mul" -> T("Star") [] op = "Div" -> T("Slash")
IsNegation(e) == e.kind = "Binary" /\ e.op = "Sub" /\ e.lhs = Number(0)
ExprTier(e) == IF e.kind # "Binary" THEN 6 ELSE IF IsNegation(e) THEN 5 ELSE Tier(e.op)
PlainSource(toks) == \A k \in DOMAIN toks : toks[k] \notin {T("LParen"), TNumber(0)}

RECURSIVE WellTiered(_)
WellTiered(e) ==
    IF e.kind # "Binary" THEN TRUE
    ELSE IF IsNegation(e) THEN ExprTier(e.rhs) = 6
    ELSE /\ ExprTier(e.lhs) >= Tier(e.op)
         /\ ExprTier(e.rhs) > Tier(e.op)
         /\ WellTiered(e.lhs)
         /\ WellTiered(e.rhs)

RECURSIVE Yield(_)
Yield(e) ==
    CASE e.kind = "Number" -> <<TNumber(e.n)>>
      [] e.kind = "Bool" -> <<T(IF e.b THEN "True" ELSE "False")>>
      [] e.kind = "Variable" -> <<TIdent(e.name)>>
      [] e.kind = "Binary" ->
            IF IsNegation(e) THEN <<T("Minus")>> \o Yield(e.rhs)
            ELSE Yield(e.lhs) \o <<OpToken(e.op)>> \o Yield(e.rhs)
      [] OTHER -> <<>>

Unparse(s) ==
    CASE s.kind = "Let" -> LetTokens(s.name) \o Yield(s.expr) \o <<Semi>>
      [] s.kind = "Assign" -> <<TIdent(s.name), T("Equal")>> \o Yield(s.expr) \o <<Semi>>
      [] s.kind = "Return" -> <<T("Return")>> \o Yield(s.expr) \o <<Semi>>
      [] s.kind = "Expr" -> Yield(s.expr) \o <<Semi>>
      [] OTHER -> <<>>

RECURSIVE UnparseAll(_)
UnparseAll(block) == IF block = <<>> THEN <<>> ELSE Unparse(Head(block)) \o UnparseAll(Tail(block))

(***************************************************************************)
(* C9: the parser's trees are left-associative within a tier, the tiers    *)
(* bind equality < comparison < term < factor < unary minus < primary, and *)
(* unary minus is Binary(Number(0), Sub, operand): reading a parsed tree   *)
(* back by these rules gives the source.  Evaluated, 10 - 3 - 2 is 5,      *)
(* 2 + 3 * 4 is 14 and -5 + 3 is -2.                                       *)
(***************************************************************************)
C9_PrecedenceAndAssociativity ==
    /\ (presult.kind = "Ok" /\ PlainSource(tokens))
          => /\ \A k \in DOMAIN program : WellTiered(program[k].expr)
             /\ UnparseAll(program) = tokens
    /\ (tokens = SrcArithmetic /\ presult.kind = "Ok")
          => program = <<Let("a", Binary(Binary(N(10), "Sub", N(3)), "Sub", N(2))),
                         Let("b", Binary(N(2), "Add", Binary(N(3), "Mul", N(4)))),
                         Let("c", Binary(Binary(N(0), "Sub", N(5)), "Add", N(3)))>>
    /\ (tokens = SrcArithmetic /\ result.kind = "Ok")
          => (env["a"] = 5 /\ env["b"] = 14 /\ env["c"] = -2)

\* the three examples have been parsed and evaluated
C9_Witness ==
    /\ tokens = SrcArithmetic
    /\ result.kind = "Ok"
    /\ env = [n \in {"a", "b", "c"} |-> IF n = "a" THEN 5 ELSE IF n = "b" THEN 14 ELSE -2]

(***************************************************************************)
(* C10: whenever a required token is not the next one (another token or    *)
(* the end of input), or parse_primary meets a token no primary starts     *)
(* with, parse_program returns a SyntaxError there and then and no AST;    *)
(* a final `let w = 100` without `;` reports that a semicolon was          *)
(* expected.                                                               *)
(***************************************************************************)
Mismatch(e) ==
    \/ e.what = "expect" /\ e.found # e.expected
    \/ e.what = "ident" /\ e.found.t # "Ident"
    \/ e.what = "primary" /\ e.found.t \notin {"Number", "True", "False", "Ident", "LParen"}

C10_MismatchIsSyntaxError ==
    /\ \A i \in DOMAIN plog :
          Mismatch(plog[i])
              => /\ i = Len(plog)
                 /\ presult.kind = "Err"
                 /\ pos = plog[i].at
                 /\ plog[i].what = "expect"
                       => presult.msg = ExpectedMsg(plog[i].expected, plog[i].found)
                 /\ plog[i].what = "primary" => presult.msg = UnexpectedMsg(plog[i].found)
    /\ presult.kind = "Err"
          => /\ plog # <<>> /\ Mismatch(plog[Len(plog)])
             /\ program = <<>> /\ result = Idle
    /\ (tokens \in {SrcNoSemicolon, SrcSample} /\ presult.kind # "Running")
          => presult = PResult("Err", ExpectedMsg(Semi, NoneTok))

\* the sample has been parsed up to its last statement, where the end of
\* input stands in for the semicolon
C10_Witness ==
    /\ tokens = SrcSample
    /\ pos = Len(tokens)
    /\ presult = PResult("Err", ExpectedMsg(Semi, NoneTok))
    /\ plog[Len(plog)] = [what |-> "expect", expected |-> Semi, found |-> NoneTok,
                          at |-> Len(tokens)]

(***************************************************************************)
(* C11: a statement that starts with an identifier is decided by the next  *)
(* token alone.  `=` makes it Assign(name, expr) closed by `;`; anything   *)
(* else makes it exactly Expr(Variable(name)), and the next token must be  *)
(* `;`, so `x + 1;` and `f(1);` are SyntaxErrors.  A statement that starts *)
(* with a number, a boolean, `(` or `-` is parsed as a whole expression.   *)
(***************************************************************************)
TokenAt(k) == IF 1 <= k /\ k <= Len(tokens) THEN tokens[k] ELSE NoneTok
Last(q) == q[Len(q)]
StmtTokens == SubSeq(tokens, pos + 1, pos')
StartsStmt(ts) == presult.kind = "Running" /\ pos < Len(tokens) /\ TokenAt(pos + 1).t \in ts

IdentStmtStep ==
    StartsStmt({"Ident"}) =>
        IF TokenAt(pos + 2) = T("Equal")
        THEN presult'.kind = "Running"
                => /\ Last(stmts').kind = "Assign"
                   /\ Last(stmts').name = TokenAt(pos + 1).name
                   /\ TokenAt(pos') = Semi
                   /\ PlainSource(StmtTokens) => Unparse(Last(stmts')) = StmtTokens
        ELSE IF TokenAt(pos + 2) = Semi
        THEN /\ presult' = presult
             /\ stmts' = Append(stmts, ExprStmt(Variable(TokenAt(pos + 1).name)))
             /\ pos' = pos + 2
        ELSE /\ presult' = PResult("Err", ExpectedMsg(Semi, TokenAt(pos + 2)))
             /\ pos' = pos + 1

ExprStmtStep ==
    (StartsStmt({"Number", "True", "False", "LParen", "Minus"}) /\ presult'.kind = "Running")
        => /\ Last(stmts').kind = "Expr"
           /\ TokenAt(pos') = Semi
           /\ PlainSource(StmtTokens) => Unparse(Last(stmts')) = StmtTokens

Negative(w) == w[4] >= Limb \div 2

\* the remainder of limbs k..4 of w divided by ten
RECURSIVE RemFrom(_, _)
RemFrom(w, k) == IF k > 4 THEN 0 ELSE (RemFrom(w, k + 1) * Limb + w[k]) % 10

QuotLimb(w, k) == (RemFrom(w, k + 1) * Limb + w[k]) \div 10
Div10(w) == <<QuotLimb(w, 1), QuotLimb(w, 2), QuotLimb(w, 3), QuotLimb(w, 4)>>

RECURSIVE Decimal(_)
Decimal(w) == IF w = Zero64 THEN <<>> ELSE Append(Decimal(Div10(w)), RemFrom(w, 1))

RECURSIVE StripZeros(_)
StripZeros(q) == IF q # <<>> /\ Head(q) = 0 THEN StripZeros(Tail(q)) ELSE q

KeywordTexts ==
    {<<"l", "e", "t">>,
     <<"f", "n">>,
     <<"i", "f">>,
     <<"e", "l", "s", "e">>,
     <<"w", "h", "i", "l", "e">>,
     <<"d", "o">>,
     <<"f", "o", "r">>,
     <<"r", "e", "t", "u", "r", "n">>,
     <<"t", "r", "u", "e">>,
     <<"f", "a", "l", "s", "e">>}

RunText(r) == SubSeq(input, r.from + 1, r.to)
CharAt(k) == IF 1 <= k /\ k <= Len(input) THEN input[k] ELSE " "
IsRunToken(tok) == tok.t \in {"Number", "Ident", "Let", "Fn", "If", "Else", "While", "Do",
                              "For", "Return", "True", "False"}
InSomeRun(k) == \E i \in DOMAIN runs : runs[i].from < k /\ k <= runs[i].to

(***************************************************************************)
(* C12: tokenize never traps; every maximal run of digits, of any length,  *)
(* becomes one Number whose value reads back as the run's decimal value;   *)
(* every letter- or underscore-led word that is no keyword becomes Ident   *)
(* with that text; and the tokens are those of the runs, in order.         *)
(***************************************************************************)
C12_NumbersAndIdents ==
    /\ lresult.kind # "Panic"
    /\ \A i \in DOMAIN runs :
          /\ runs[i].kind = "number"
                => /\ \A k \in DOMAIN RunText(runs[i]) : ToDigit(RunText(runs[i])[k]) >= 0
                   /\ ToDigit(CharAt(runs[i].from)) < 0
                   /\ ToDigit(CharAt(runs[i].to + 1)) < 0
                   /\ runs[i].tok.t = "Number"
                   /\ ~Negative(runs[i].tok.n)
                   /\ Decimal(runs[i].tok.n)
                          = StripZeros([k \in DOMAIN RunText(runs[i])
                                           |-> ToDigit(RunText(runs[i])[k])])
          /\ runs[i].kind = "word"
                => /\ \A k \in DOMAIN RunText(runs[i]) : IsWordChar(RunText(runs[i])[k])
                   /\ ~IsWordChar(CharAt(runs[i].to + 1))
                   /\ RunText(runs[i]) \notin KeywordTexts
                         => runs[i].tok = TIdent(RunText(runs[i]))
    /\ lresult.kind = "Ok"
          => /\ \A k \in DOMAIN input : IsWordChar(input[k]) => InSomeRun(k)
             /\ SelectSeq(ltokens, IsRunToken) = [i \in DOMAIN runs |-> runs[i].tok]

(***************************************************************************)
(* Reading the type checker's log.                                         *)
(***************************************************************************)
\* the receiver as event i of tlog recorded it
TcAt(i) == [env |-> tlog[i].env, functions |-> tlog[i].fns, tlog |-> <<>>]
\* event i + 1 exists and belongs to the statement of event i
TFollows(i) == i < Len(tlog) /\ tlog[i + 1].s = tlog[i].s
\* event i is the TypeError check_program returned: nothing was checked after it
TEndsCheck(i) ==
    /\ tlog[i].ev = "err"
    /\ i = Len(tlog)
    /\ tresult = Returned("Err", tlog[i].msg)
    /\ tip < Len(program)

\* a Let entered at event i, whose expression has type t, rebinds the name to t
LetRebinds(i, t) ==
    /\ tlog[i + 1].ev = "done"
    /\ DOMAIN tlog[i + 1].env = DOMAIN tlog[i].env \cup {tlog[i].s.name}
    /\ \A n \in DOMAIN tlog[i + 1].env :
          tlog[i + 1].env[n] = IF n = tlog[i].s.name THEN t ELSE tlog[i].env[n]

\* an Assign entered at event i, whose expression has the result t
AssignChecked(i, t) ==
    /\ tlog[i + 1].env = tlog[i].env
    /\ tlog[i + 1].ev = "done" =>
          /\ tlog[i].s.name \in DOMAIN tlog[i].env
          /\ t.kind = "Ok"
          /\ t.t = tlog[i].env[tlog[i].s.name]
    /\ tlog[i + 1].ev # "done" => TEndsCheck(i + 1)

\* C13: Assign is accepted only when the name is bound and the type of the
\* expression equals the bound type; otherwise check_program returns a
\* TypeError, checks nothing further and leaves the binding as it was.  Let
\* rebinds the name to the type of its expression.  `let x = 5; x = true;`
\* is rejected with a TypeError.
C13_AssignNeedsBinding ==
    /\ \A i \in DOMAIN tlog :
          /\ (tlog[i].ev = "exec" /\ tlog[i].s.kind = "Assign") =>
                TFollows(i) /\ AssignChecked(i, CheckExpr(TcAt(i), tlog[i].s.expr))
          /\ (tlog[i].ev = "exec" /\ tlog[i].s.kind = "Let"
                /\ CheckExpr(TcAt(i), tlog[i].s.expr).kind = "Ok") =>
                TFollows(i) /\ LetRebinds(i, CheckExpr(TcAt(i), tlog[i].s.expr).t)
    /\ (program = RetypeProgram /\ tresult # Running) =>
          tresult = Returned("Err", MismatchMsg("x"))

C13_Witness ==
    /\ program = RetypeProgram
    /\ tresult = Returned("Err", MismatchMsg("x"))
    /\ tenv = MapInsert(EmptyMap, "x", "Int")

\* the statements whose expression is checked as it stands
HasExpr(s) == s.kind \in {"Let", "Assign", "Return", "Expr"}

\* every argument of the call c has type Int for the receiver tc
ArgsAreInt(tc, c) == \A k \in DOMAIN c.args : CheckExpr(tc, c.args[k]) = TOk("Int")

\* the rule of the claim for the call c checked by the receiver tc
CallAccepted(tc, c) ==
    /\ c.name \in DOMAIN tc.functions
    /\ Len(c.args) = Len(tc.functions[c.name].params)
    /\ ArgsAreInt(tc, c)

\* the FnDecl entered at event i records (Int, .., Int) -> Int before any
\* statement of its body is entered
RecordsSignature(i) ==
    /\ TFollows(i)
    /\ tlog[i + 1].ev = "decl"
    /\ tlog[i + 1].fns[tlog[i].s.name].ret = "Int"
    /\ tlog[i + 1].fns[tlog[i].s.name].params = [k \in DOMAIN tlog[i].s.params |-> "Int"]

\* C14: FnDecl records Int for every parameter and Int as the return type
\* whatever the body returns, and before the body is checked; a Call is
\* accepted exactly when the name has a signature, the counts agree and every
\* argument is Int, and then has type Int; the recursive call of FnRec's body
\* is accepted.
C14_SignatureAndCall ==
    /\ \A i \in DOMAIN tlog :
          /\ (tlog[i].ev = "exec" /\ tlog[i].s.kind = "FnDecl") => RecordsSignature(i)
          /\ (tlog[i].ev = "exec" /\ HasExpr(tlog[i].s) /\ tlog[i].s.expr.kind = "Call") =>
                /\ CallAccepted(TcAt(i), tlog[i].s.expr)
                      <=> CheckExpr(TcAt(i), tlog[i].s.expr).kind = "Ok"
                /\ CallAccepted(TcAt(i), tlog[i].s.expr)
                      => CheckExpr(TcAt(i), tlog[i].s.expr) = TOk("Int")
                /\ (tlog[i].s.kind = "Let" /\ CallAccepted(TcAt(i), tlog[i].s.expr)) =>
                      TFollows(i) /\ LetRebinds(i, "Int")
                /\ ~CallAccepted(TcAt(i), tlog[i].s.expr) => TFollows(i) /\ TEndsCheck(i + 1)
          /\ (tlog[i].ev = "exec" /\ tlog[i].s \in {FnRec, FnBool}) =>
                \E k \in i + 1..Len(tlog) : tlog[k].ev = "done" /\ tlog[k].s = tlog[i].s

\* h, whose body returns a boolean, has been declared and `let r = h(1);` gave r
\* the type Int
C14_Witness ==
    /\ program = <<FnBool, Let("r", Call("h", <<N(1)>>))>>
    /\ tresult = Returned("Ok", <<>>)
    /\ tenv["r"] = "Int"

\* the expression e mentions the variable v
RECURSIVE Mentions(_, _)
Mentions(e, v) ==
    CASE e.kind = "Variable" -> e.name = v
      [] e.kind = "Binary" -> Mentions(e.lhs, v) \/ Mentions(e.rhs, v)
      [] e.kind = "Call" -> \E k \in DOMAIN e.args : Mentions(e.args[k], v)
      [] OTHER -> FALSE

\* start, cond and step of the For s have the types Int, Bool, Int for tc
HeaderTypes(tc, s) ==
    /\ CheckExpr(tc, s.start) = TOk("Int")
    /\ CheckExpr(tc, s.cond) = TOk("Bool")
    /\ CheckExpr(tc, s.step) = TOk("Int")

\* the first error of start, cond, step for tc, in that order
HeaderError(tc, s) ==
    IF CheckExpr(tc, s.start).kind = "Err" THEN CheckExpr(tc, s.start).msg
    ELSE IF CheckExpr(tc, s.cond).kind = "Err" THEN CheckExpr(tc, s.cond).msg
    ELSE IF CheckExpr(tc, s.step).kind = "Err" THEN CheckExpr(tc, s.step).msg
    ELSE <<"Invalid types in 'for' loop">>

\* the For entered at event i is typed in the environment of event i, and its
\* variable is registered as Int only once the header has been accepted
HeaderBeforeVar(i) ==
    /\ TFollows(i)
    /\ IF HeaderTypes(TcAt(i), tlog[i].s)
       THEN /\ tlog[i + 1].ev = "bind"
            /\ tlog[i + 1].env = MapInsert(tlog[i].env, tlog[i].s.var, "Int")
       ELSE /\ TEndsCheck(i + 1)
            /\ tlog[i + 1].env = tlog[i].env
            /\ tlog[i + 1].msg = HeaderError(TcAt(i), tlog[i].s)

\* the For entered at event i has an unbound variable that cond or step mention
UnboundLoopVar(i) ==
    /\ tlog[i].s.var \notin DOMAIN tlog[i].env
    /\ Mentions(tlog[i].s.cond, tlog[i].s.var) \/ Mentions(tlog[i].s.step, tlog[i].s.var)

ParseLoopRuns ==
    \/ []<>(presult.kind # "Running")
    \/ []<><<ParseProgramStep \/ ParseProgramOk>>_vars

ParseFairSpec == ParseInit /\ [][ParseNext]_vars /\ ParseLoopRuns

\* a parser that stands before token p + 1 and has not failed
ParserAt(p) == [pos |-> p, err |-> NoError, plog |-> <<>>]
\* r is what an iteration entered at position p came back with: a SyntaxError,
\* or a position past p
Progress(r, p) == Failed(r.ps) \/ r.ps.pos > p
\* r is what a call entered at position p came back with
NoRetreat(r, p) == r.ps.pos >= p

\* one iteration of each loop of the parser, entered at position p: parse_stmt
\* for parse_program and parse_block, the operator's token and the operand for
\* the four binary tiers, parse_expr for the arguments, the name for the
\* parameters
IterationsProgress(p) ==
    /\ Progress(ParseStmt(tokens, ParserAt(p)), p)
    /\ Progress(ParseComparison(tokens, Advance(ParserAt(p))), p)
    /\ Progress(ParseTerm(tokens, Advance(ParserAt(p))), p)
    /\ Progress(ParseFactor(tokens, Advance(ParserAt(p))), p)
    /\ Progress(ParseUnary(tokens, Advance(ParserAt(p))), p)
    /\ Progress(ParseExpr(tokens, ParserAt(p)), p)
    /\ Progress(ExpectIdent(tokens, ParserAt(p), "Expected parameter name"), p)
    /\ NoRetreat(ParseStmt(tokens, ParserAt(p)), p)
    /\ NoRetreat(ParseExpr(tokens, ParserAt(p)), p)
    /\ NoRetreat(ParseBlock(tokens, ParserAt(p)), p)

\* the source has more `{` than `}`
Unclosed(toks) ==
    Len(SelectSeq(toks, LAMBDA t : t = T("LBrace"))) > Len(SelectSeq(toks, LAMBDA t : t = T("RBrace")))

\* every token test of the log consumed its token, or is the last one
TestsConsume == \A i \in 1..Len(plog) - 1 : plog[i].at < plog[i + 1].at

\* what holds of every state of a parse; tokens is fixed by Parser::new, so the
\* iterations are examined in the state parse_program is entered in
ParseProgresses ==
    /\ (pos = 0 /\ presult.kind = "Running") =>
          \A p \in 0..Len(tokens) - 1 : IterationsProgress(p)
    /\ TestsConsume
    /\ pos <= Len(tokens)
    /\ presult.kind = "Ok" => pos = Len(tokens)
    /\ Unclosed(tokens) => presult.kind # "Ok"

\* what holds of every step: the position never decreases, and an iteration of
\* parse_program that pushes a statement has advanced it
ParseAdvances ==
    /\ pos' >= pos
    /\ stmts' # stmts => pos' > pos \/ presult'.kind = "Err"
    /\ (presult.kind = "Running" /\ presult'.kind = "Running" /\ plog' # plog) => pos' > pos

\* C16: parse_program terminates; every iteration of its loops advances the
\* position or returns a SyntaxError, the position never decreases, a block
\* whose `}` is missing before the end of input ends in a SyntaxError, and on
\* success every token has been consumed.
C16_ParseTerminates ==
    /\ []ParseProgresses
    /\ [][ParseAdvances]_vars
    /\ <>(presult.kind # "Running")
    /\ Unclosed(tokens) ~> presult.kind = "Err"

\* while (true) { x;  has ended in the error of the statement the block loop
\* entered at the end of input
C16_Witness ==
    /\ tokens = <<T("While"), T("LParen"), T("True"), T("RParen"), T("LBrace"), TIdent("x"), Semi>>
    /\ presult = PResult("Err", UnexpectedMsg(NoneTok))
    /\ pos = Len(tokens)

====
